---- MODULE Spec2Model ----
(***************************************************************************)
(* A model of the market-heatmap page (web/src/app/layouts/heatmap.tsx)    *)
(* and of the reconnecting socket client (web/src/services/socket.js).     *)
(*                                                                         *)
(* Numbers.  JavaScript numbers are modelled by integers: prices in whole  *)
(* units, percent changes in whole percent, pixel lengths in whole pixels, *)
(* weights in thousandths (0.6 is 600).  The IEEE values NaN, -Infinity    *)
(* and +Infinity, and the absent value (null or undefined), are integers   *)
(* far outside the range the model computes with; every arithmetic         *)
(* operator below treats them as JavaScript does.                          *)
(*                                                                         *)
(* Strings are sequences of one-character strings, so that conversions     *)
(* (Number(s), n.toString()) are computed and not assumed.                 *)
(***************************************************************************)
EXTENDS Integers, Sequences, FiniteSets, TLC

VARIABLES
    call,       \* the pure-function call under test: its arguments and result
    client,     \* SocketClient: url, ws, manualClose, reconnectAttempts, reconnectDelay
    csockets,   \* the WebSockets the client created that are not yet gone
    timers,     \* the delays of the pending setTimeout reconnect timers
    cev,        \* the last SocketClient operation, and what the owner last asked for
    useHardcoded, \* the build flag USE_HARDCODED of the heatmap page
    prices,     \* HeatmapLayout: the Price Store (ticker key -> snapshot)
    socketRef,  \* HeatmapLayout: socketRef.current (0 is null)
    effects,    \* the runs of the websocket effect: alive flag, progress of connect()
    dsockets,   \* the WebSockets the websocket effect created
    ev,         \* the last event the page handled
    hist,       \* history: the initial store and, per key, the payload last stored
    ui          \* HeatmapLayout: size, filters, expandedCategory, sidebar, fullscreen

pureVars == <<call>>
clientVars == <<client, csockets, timers, cev>>
streamVars == <<useHardcoded, prices, socketRef, effects, dsockets, ev, hist>>
uiVars == <<ui>>
vars == <<call, client, csockets, timers, cev,
          useHardcoded, prices, socketRef, effects, dsockets, ev, hist, ui>>

(***************************************************************************)
(* JavaScript numbers                                                      *)
(***************************************************************************)
NaN == 0 - 2^30
NegInf == 1 - 2^30
Missing == 2 - 2^30
PosInf == 2^30

IsFinite(n) == n # NaN /\ n # NegInf /\ n # PosInf /\ n # Missing

\* a + b
JSAdd(a, b) ==
    IF a = NaN \/ b = NaN THEN NaN
    ELSE IF a = PosInf THEN (IF b = NegInf THEN NaN ELSE PosInf)
    ELSE IF a = NegInf THEN (IF b = PosInf THEN NaN ELSE NegInf)
    ELSE IF b = PosInf \/ b = NegInf THEN b
    ELSE a + b

\* a <= b (false when either side is NaN)
JSLe(a, b) ==
    IF a = NaN \/ b = NaN THEN FALSE
    ELSE IF a = NegInf \/ b = PosInf THEN TRUE
    ELSE IF a = PosInf \/ b = NegInf THEN FALSE
    ELSE a <= b

\* Math.abs(a)
JSAbs(a) ==
    IF a = NaN THEN NaN
    ELSE IF a = PosInf \/ a = NegInf THEN PosInf
    ELSE IF a < 0 THEN 0 - a ELSE a

\* Math.min(a, b)
JSMin(a, b) ==
    IF a = NaN \/ b = NaN THEN NaN ELSE IF JSLe(a, b) THEN a ELSE b

\* Math.max(a, b)
JSMax(a, b) ==
    IF a = NaN \/ b = NaN THEN NaN ELSE IF JSLe(a, b) THEN b ELSE a

\* Math.floor((w * a) / t) for a finite length w
JSMulDivFloor(w, a, t) ==
    IF w = NaN \/ a = NaN \/ t = NaN THEN NaN
    ELSE IF t = PosInf THEN (IF a = PosInf THEN NaN ELSE 0)
    ELSE IF a = PosInf THEN (IF w = 0 THEN NaN ELSE IF (w > 0) = (t > 0) THEN PosInf ELSE NegInf)
    ELSE IF t = 0 THEN (IF w * a = 0 THEN NaN ELSE IF w * a > 0 THEN PosInf ELSE NegInf)
    ELSE (w * a) \div t

(***************************************************************************)
(* heatmap.tsx: constants                                                  *)
(***************************************************************************)
MIN_TILE == 22

(***************************************************************************)
(* heatmap.tsx: computeWeight                                              *)
(***************************************************************************)
\* floor(1000 * log10(n)) for the arguments the model's prices produce
Log10Table ==
    (1 :> 0) @@ (2 :> 301) @@ (3 :> 477) @@ (4 :> 602) @@ (5 :> 698) @@
    (6 :> 778) @@ (10 :> 1000) @@ (11 :> 1041) @@ (100 :> 2000) @@
    (101 :> 2004) @@ (1000 :> 3000) @@ (1001 :> 3000) @@ (3001 :> 3477) @@
    (10001 :> 4000) @@ (50001 :> 4698) @@ (100001 :> 5000)

\* Math.log10(n), in thousandths
Log10Milli(n) ==
    IF n = NaN \/ n = NegInf THEN NaN
    ELSE IF n = PosInf THEN PosInf
    ELSE IF n < 0 THEN NaN
    ELSE IF n = 0 THEN NegInf
    ELSE Log10Table[n]

\* p * 0.5 + c * 1.4 with p in thousandths and c = cm / 10
WeightSum(p, cm) ==
    IF p = NaN \/ cm = NaN THEN NaN
    ELSE IF p = PosInf \/ p = NegInf THEN p
    ELSE (p \div 2) + 140 * cm

computeWeight(price, change) ==
    LET p  == Log10Milli(JSAdd(IF price = Missing THEN 1 ELSE price, 1))
        cm == JSMin(JSAbs(IF change = Missing THEN 0 ELSE change), 10)
    IN  JSMax(600, WeightSum(p, cm))

(***************************************************************************)
(* heatmap.tsx: safe and partition                                         *)
(***************************************************************************)
\* Math.max(MIN_TILE, Math.floor(n)); n arrives floored (JSMulDivFloor, or
\* a difference of whole pixels)
safe(n) == JSMax(MIN_TILE, n)

\* it._weight ?? computeWeight(it.price, it.priceChange24hr)
ItemWeight(it) ==
    IF it._weight # Missing THEN it._weight
    ELSE computeWeight(it.price, it.priceChange24hr)

\* items.reduce((s, it) => s + weight(it), 0)
RECURSIVE SumWeights(_)
SumWeights(items) ==
    IF Len(items) = 0 THEN 0
    ELSE JSAdd(SumWeights(SubSeq(items, 1, Len(items) - 1)),
               ItemWeight(items[Len(items)]))

\* acc >= total / 2
ReachesHalf(acc, total) ==
    IF acc = NaN \/ total = NaN THEN FALSE
    ELSE IF acc = PosInf THEN TRUE
    ELSE IF total = PosInf THEN FALSE
    ELSE 2 * acc >= total

\* a split that looks for the prefix that exceeds half the total
SplitIndex_past(items, total) ==
    LET n    == Len(items)
        hits == {i \in 0..(n - 1) :
                    LET acc == SumWeights(SubSeq(items, 1, i + 1))
                    IN  ReachesHalf(acc, total) /\ 2 * acc # total}
        idx  == IF hits = {} THEN 0
                ELSE CHOOSE i \in hits : \A j \in hits : i <= j
    IN  IF idx >= n - 1 THEN n - 2 ELSE idx

\* a split without the clamp that keeps group B from being empty
SplitIndex_unclamped(items, total) ==
    LET n    == Len(items)
        hits == {i \in 0..(n - 1) : ReachesHalf(SumWeights(SubSeq(items, 1, i + 1)), total)}
    IN  IF hits = {} THEN 0
        ELSE CHOOSE i \in hits : \A j \in hits : i <= j

\* the loop of lines 152-160 and the clamps of lines 161-162: a 0-based index
SplitIndex(items, total) ==
    LET n    == Len(items)
        hits == {i \in 0..(n - 1) : ReachesHalf(SumWeights(SubSeq(items, 1, i + 1)), total)}
        idx  == IF hits = {} THEN 0
                ELSE CHOOSE i \in hits : \A j \in hits : i <= j
    IN  IF idx >= n - 1 THEN n - 2 ELSE idx

\* {...item, x, y, width: w, height: h}
Placed(it, x, y, w, h) ==
    [it EXCEPT !.x = x, !.y = y, !.width = w, !.height = h]

RECURSIVE partition(_, _, _, _, _, _)
partition(items, x, y, w, h, horizontal) ==
    IF Len(items) = 0 THEN << >>
    ELSE IF Len(items) = 1 THEN << Placed(items[1], x, y, w, h) >>
    ELSE
      LET total == SumWeights(items) IN
      IF JSLe(total, 0) THEN
        LET half  == Len(items) \div 2
            wLeft == IF w = NaN THEN NaN ELSE w \div 2
            wRight == IF w = NaN THEN NaN ELSE w - (w \div 2)
        IN  partition(SubSeq(items, 1, half), x, y, wLeft, h, ~horizontal)
              \o partition(SubSeq(items, half + 1, Len(items)),
                           JSAdd(x, wLeft), y, wRight, h, ~horizontal)
      ELSE
        LET idx     == SplitIndex(items, total)
            a       == SubSeq(items, 1, idx + 1)
            b       == SubSeq(items, idx + 2, Len(items))
            aWeight == SumWeights(a)
        IN  IF horizontal THEN
              LET wA == safe(JSMulDivFloor(w, aWeight, total))
                  wB == safe(IF w = NaN \/ wA = NaN THEN NaN ELSE w - wA)
              IN  partition(a, x, y, wA, h, ~horizontal)
                    \o partition(b, JSAdd(x, wA), y, wB, h, ~horizontal)
            ELSE
              LET hA == safe(JSMulDivFloor(h, aWeight, total))
                  hB == safe(IF h = NaN \/ hA = NaN THEN NaN ELSE h - hA)
              IN  partition(a, x, y, w, hA, ~horizontal)
                    \o partition(b, x, JSAdd(y, hA), w, hB, ~horizontal)

(***************************************************************************)
(* JavaScript values: undefined, null, numbers, strings, objects           *)
(***************************************************************************)
NoFields == [k \in {} |-> 0]

JUndef == [t |-> "undefined", n |-> 0, s |-> << >>, o |-> NoFields]
JNull == [t |-> "null", n |-> 0, s |-> << >>, o |-> NoFields]
JNum(n) == [t |-> "number", n |-> n, s |-> << >>, o |-> NoFields]
JStr(s) == [t |-> "string", n |-> 0, s |-> s, o |-> NoFields]
JObj(f) == [t |-> "object", n |-> 0, s |-> << >>, o |-> f]

\* v == null (v is null or undefined)
Nullish(v) == v.t = "undefined" \/ v.t = "null"

\* !v
Falsy(v) ==
    \/ Nullish(v)
    \/ (v.t = "number" /\ (v.n = 0 \/ v.n = NaN))
    \/ (v.t = "string" /\ v.s = << >>)

\* v[k] for a value v that is not null or undefined
Get(v, k) ==
    IF v.t = "object" /\ k \in DOMAIN v.o THEN v.o[k] ELSE JUndef

DigitVal ==
    ("0" :> 0) @@ ("1" :> 1) @@ ("2" :> 2) @@ ("3" :> 3) @@ ("4" :> 4) @@
    ("5" :> 5) @@ ("6" :> 6) @@ ("7" :> 7) @@ ("8" :> 8) @@ ("9" :> 9)

DigitChar == <<"0", "1", "2", "3", "4", "5", "6", "7", "8", "9">>

IsDigits(s) == Len(s) > 0 /\ \A i \in 1..Len(s) : s[i] \in DOMAIN DigitVal

RECURSIVE DigitsToNat(_)
DigitsToNat(s) ==
    IF Len(s) = 0 THEN 0
    ELSE 10 * DigitsToNat(SubSeq(s, 1, Len(s) - 1)) + DigitVal[s[Len(s)]]

RECURSIVE NatToDigits(_)
NatToDigits(n) ==
    IF n < 10 THEN << DigitChar[n + 1] >>
    ELSE NatToDigits(n \div 10) \o << DigitChar[(n % 10) + 1] >>

\* Number(s) for a string of the model: an optionally signed run of digits
\* is its value, the empty string is 0, anything else is NaN
StringToNumber(s) ==
    IF s = << >> THEN 0
    ELSE IF IsDigits(s) THEN DigitsToNat(s)
    ELSE IF Head(s) = "-" /\ IsDigits(Tail(s)) THEN 0 - DigitsToNat(Tail(s))
    ELSE NaN

\* Number(v)
ToNumber(v) ==
    IF v.t = "number" THEN v.n
    ELSE IF v.t = "string" THEN StringToNumber(v.s)
    ELSE IF v.t = "null" THEN 0
    ELSE NaN

\* v.toString() for a number, a string or a plain object
ToStr(v) ==
    IF v.t = "string" THEN v.s
    ELSE IF v.t = "object"
      THEN <<"[", "o", "b", "j", "e", "c", "t", " ", "O", "b", "j", "e", "c", "t", "]">>
    ELSE IF v.n = NaN THEN <<"N", "a", "N">>
    ELSE IF v.n < 0 THEN <<"-">> \o NatToDigits(0 - v.n)
    ELSE NatToDigits(v.n)

(***************************************************************************)
(* heatmap.tsx: getNumericPrice and the message handler                    *)
(***************************************************************************)
PriceFields == <<"price", "last", "value", "p", "close">>

\* typeof v === "number", or a string with !isNaN(Number(v))
IsNumeric(v) ==
    \/ v.t = "number"
    \/ (v.t = "string" /\ StringToNumber(v.s) # NaN)

\* the loop of lines 76-80 from field i on
RECURSIVE FirstNumericField(_, _)
FirstNumericField(d, i) ==
    IF i > Len(PriceFields) THEN Missing
    ELSE IF IsNumeric(Get(d, PriceFields[i])) THEN ToNumber(Get(d, PriceFields[i]))
    ELSE FirstNumericField(d, i + 1)

getNumericPrice(d) ==
    IF Falsy(d) THEN Missing
    ELSE IF d.t = "number" THEN d.n
    ELSE IF d.t = "string" /\ StringToNumber(d.s) # NaN THEN StringToNumber(d.s)
    ELSE IF d.t = "object" THEN FirstNumericField(d, 1)
    ELSE Missing

\* d.symbol ?? d.id ?? d.ticker
TickerField(d) ==
    IF ~Nullish(Get(d, "symbol")) THEN Get(d, "symbol")
    ELSE IF ~Nullish(Get(d, "id")) THEN Get(d, "id")
    ELSE Get(d, "ticker")

\* Number(d.priceChange24h) || 0
ChangeOf(d) ==
    LET n == ToNumber(Get(d, "priceChange24h"))
    IN  IF n = NaN THEN 0 ELSE n

\* { data: d, price: getNumericPrice(d), priceChange24hr: ... } (line 511)
Snapshot(d) ==
    [data |-> d, price |-> getNumericPrice(d), priceChange24hr |-> ChangeOf(d)]

NoPrices == [k \in {} |-> 0]

\* the updater that keeps the fields the new payload does not give
setPricesUpdater_merge(p, key, entry) ==
    [k \in DOMAIN p \cup {key} |->
        IF k # key THEN p[k]
        ELSE IF key \in DOMAIN p /\ entry.price = Missing
             THEN [entry EXCEPT !.price = p[key].price]
        ELSE entry]

\* (p) => ({ ...p, [key]: entry }) (line 511)
setPricesUpdater(p, key, entry) ==
    [k \in DOMAIN p \cup {key} |-> IF k = key THEN entry ELSE p[k]]

PRICE_UPDATE == <<"p", "r", "i", "c", "e", "_", "u", "p", "d", "a", "t", "e">>

\* the try block without the test of msg.type
TryBlock_anytype(e, p) ==
    IF ~e.parses THEN [threw |-> TRUE, prices |-> p, key |-> << >>, stored |-> FALSE]
    ELSE IF Nullish(e.msg) THEN [threw |-> TRUE, prices |-> p, key |-> << >>, stored |-> FALSE]
    ELSE
      LET d == Get(e.msg, "data") IN
      IF Nullish(d) THEN [threw |-> TRUE, prices |-> p, key |-> << >>, stored |-> FALSE]
      ELSE IF Nullish(TickerField(d)) \/ ToStr(TickerField(d)) = << >>
        THEN [threw |-> FALSE, prices |-> p, key |-> << >>, stored |-> FALSE]
      ELSE [threw  |-> FALSE,
            prices |-> setPricesUpdater(p, ToStr(TickerField(d)), Snapshot(d)),
            key    |-> ToStr(TickerField(d)),
            stored |-> TRUE]

\* the try block of ws.onmessage (lines 506-511): whether it threw, the
\* store afterwards, and the key it stored under
TryBlock(e, p) ==
    IF ~e.parses THEN [threw |-> TRUE, prices |-> p, key |-> << >>, stored |-> FALSE]
    ELSE IF Nullish(e.msg) THEN [threw |-> TRUE, prices |-> p, key |-> << >>, stored |-> FALSE]
    ELSE IF Get(e.msg, "type") # JStr(PRICE_UPDATE)
      THEN [threw |-> FALSE, prices |-> p, key |-> << >>, stored |-> FALSE]
    ELSE
      LET d == Get(e.msg, "data") IN
      IF Nullish(d) THEN [threw |-> TRUE, prices |-> p, key |-> << >>, stored |-> FALSE]
      ELSE IF Nullish(TickerField(d)) \/ ToStr(TickerField(d)) = << >>
        THEN [threw |-> FALSE, prices |-> p, key |-> << >>, stored |-> FALSE]
      ELSE [threw  |-> FALSE,
            prices |-> setPricesUpdater(p, ToStr(TickerField(d)), Snapshot(d)),
            key    |-> ToStr(TickerField(d)),
            stored |-> TRUE]

\* ws.onmessage without the test of the alive flag
onmessage_ungated(alive, e, p) ==
    LET r == TryBlock(e, p)
    IN  IF r.threw THEN [prices |-> p, key |-> << >>, stored |-> FALSE, escaped |-> FALSE]
        ELSE [prices |-> r.prices, key |-> r.key, stored |-> r.stored, escaped |-> FALSE]

\* ws.onmessage (lines 503-513): the store afterwards, whether and under
\* which key it stored, and whether an error left the handler
onmessage(alive, e, p) ==
    IF ~alive THEN [prices |-> p, key |-> << >>, stored |-> FALSE, escaped |-> FALSE]
    ELSE
      LET r == TryBlock(e, p)
      IN  IF r.threw
          THEN [prices |-> p, key |-> << >>, stored |-> FALSE, escaped |-> FALSE]
          ELSE [prices |-> r.prices, key |-> r.key, stored |-> r.stored,
                escaped |-> FALSE]

(***************************************************************************)
(* heatmap.tsx: the hardcoded store                                        *)
(***************************************************************************)
USE_HARDCODED == TRUE

BTC_USD == <<"B", "T", "C", "/", "U", "S", "D">>
VIX == <<"V", "I", "X">>
Crypto == <<"C", "r", "y", "p", "t", "o">>
Other == <<"O", "t", "h", "e", "r">>
Coinbase == <<"C", "o", "i", "n", "b", "a", "s", "e">>
OtherEx == <<"O", "t", "h", "e", "r", "E", "x">>

\* one element of HARDCODED_COINS (lines 376-383) as buildInitialPricesMap
\* stores it (lines 390-394)
HardcodedEntry(sym, cat, exchange, price, pct) ==
    [data |-> JObj(("name" :> JStr(sym \o <<" ", "(">> \o cat \o <<")">>)) @@
                   ("symbol" :> JStr(sym)) @@
                   ("exchange" :> JStr(exchange)) @@
                   ("category" :> JStr(cat))),
     price |-> price,
     priceChange24hr |-> pct]

\* buildInitialPricesMap() for two of the symbols of HARDCODED_BY_CATEGORY,
\* the first Crypto one and the first Other one; draw is what Math.random
\* gave (lines 320-327 and 367-371)
buildInitialPricesMap(draw) ==
    (BTC_USD :> HardcodedEntry(BTC_USD, Crypto, Coinbase, draw.cryptoPrice, draw.cryptoPct)) @@
    (VIX :> HardcodedEntry(VIX, Other, OtherEx, draw.otherPrice, draw.otherPct))

\* outcomes of Math.random within the ranges of lines 324, 327, 369, 370
RandomDraws ==
    { [cryptoPrice |-> 50000, cryptoPct |-> 5, otherPrice |-> 9, otherPct |-> 0 - 1],
      [cryptoPrice |-> 3000, cryptoPct |-> 0 - 2, otherPrice |-> 99, otherPct |-> 0] }

(***************************************************************************)
(* heatmap.tsx: the websocket effect (lines 495-523)                       *)
(***************************************************************************)
MaxMounts == 2

NoEvent(op) ==
    [op |-> op, e |-> [parses |-> FALSE, msg |-> JUndef],
     afterCleanup |-> FALSE, escaped |-> FALSE]

\* the effect is mounted: its last run has not been cleaned up
Mounted == Len(effects) > 0 /\ ~effects[Len(effects)].cleaned

\* the effect runs (React mounts the component, or mounts it again)
Mount ==
    /\ ~Mounted
    /\ Len(effects) < MaxMounts
    /\ effects' = Append(effects,
          IF useHardcoded
          THEN [alive |-> FALSE, pc |-> "skipped", cleaned |-> FALSE]
          ELSE [alive |-> TRUE, pc |-> "awaiting", cleaned |-> FALSE])
    /\ ev' = NoEvent("mount")
    /\ UNCHANGED <<useHardcoded, prices, socketRef, dsockets, hist>>
    /\ UNCHANGED <<pureVars, clientVars, uiVars>>

\* buildAuthenticatedWebSocketUrl resolves for run i: lines 501-514
UrlResolved(i) ==
    /\ i \in 1..Len(effects)
    /\ effects[i].pc = "awaiting"
    /\ effects' = [effects EXCEPT ![i].pc = "connected"]
    /\ dsockets' = Append(dsockets, [readyState |-> "CONNECTING", effect |-> i])
    /\ socketRef' = Len(dsockets) + 1
    /\ ev' = NoEvent("url")
    /\ UNCHANGED <<useHardcoded, prices, hist>>
    /\ UNCHANGED <<pureVars, clientVars, uiVars>>

\* buildAuthenticatedWebSocketUrl rejects for run i: the catch of line 515
UrlRejected(i) ==
    /\ i \in 1..Len(effects)
    /\ effects[i].pc = "awaiting"
    /\ effects' = [effects EXCEPT ![i].pc = "failed"]
    /\ ev' = NoEvent("url-rejected")
    /\ UNCHANGED <<useHardcoded, prices, socketRef, dsockets, hist>>
    /\ UNCHANGED <<pureVars, clientVars, uiVars>>

\* ws.close() on socket s (0: there is none)
CloseSocket(socks, s) ==
    IF s = 0 \/ socks[s].readyState = "CLOSED" THEN socks
    ELSE [socks EXCEPT ![s].readyState = "CLOSING"]

\* what the cleanup (lines 518-522) does to its own run
Cleanup(run) == [run EXCEPT !.alive = FALSE, !.cleaned = TRUE]

\* the effect's cleanup runs (React unmounts the component); a run that
\* returned at line 496 registered none
Unmount ==
    /\ Mounted
    /\ LET i == Len(effects) IN
        IF effects[i].pc = "skipped"
        THEN /\ effects' = [effects EXCEPT ![i].cleaned = TRUE]
             /\ UNCHANGED <<socketRef, dsockets>>
        ELSE /\ effects' = [effects EXCEPT ![i] = Cleanup(effects[i])]
             /\ dsockets' = CloseSocket(dsockets, socketRef)
             /\ socketRef' = 0
    /\ ev' = NoEvent("unmount")
    /\ UNCHANGED <<useHardcoded, prices, hist>>
    /\ UNCHANGED <<pureVars, clientVars, uiVars>>

\* socket s opens
DSocketOpened(s) ==
    /\ s \in 1..Len(dsockets)
    /\ dsockets[s].readyState = "CONNECTING"
    /\ dsockets' = [dsockets EXCEPT ![s].readyState = "OPEN"]
    /\ ev' = NoEvent("open")
    /\ UNCHANGED <<useHardcoded, prices, socketRef, effects, hist>>
    /\ UNCHANGED <<pureVars, clientVars, uiVars>>

\* socket s closes: the peer or the network closed it, or its close()
\* completed; ws.onerror does nothing and there is no onclose handler
DSocketClosed(s) ==
    /\ s \in 1..Len(dsockets)
    /\ dsockets[s].readyState # "CLOSED"
    /\ dsockets' = [dsockets EXCEPT ![s].readyState = "CLOSED"]
    /\ ev' = NoEvent("closed")
    /\ UNCHANGED <<useHardcoded, prices, socketRef, effects, hist>>
    /\ UNCHANGED <<pureVars, clientVars, uiVars>>

\* a message event e on the open socket s: ws.onmessage of the run that
\* created s
Deliver(s, e) ==
    /\ s \in 1..Len(dsockets)
    /\ dsockets[s].readyState = "OPEN"
    /\ LET run == effects[dsockets[s].effect]
           r   == onmessage(run.alive, e, prices)
       IN  /\ prices' = r.prices
           /\ ev' = [op |-> "message", e |-> e,
                     afterCleanup |-> run.cleaned, escaped |-> r.escaped]
           /\ hist' = IF r.stored
                      THEN [hist EXCEPT
                              !.latest =
                                [k \in DOMAIN hist.latest \cup {r.key} |->
                                   IF k = r.key THEN Get(e.msg, "data")
                                   ELSE hist.latest[k]],
                              !.replaced =
                                IF r.key \in DOMAIN hist.latest
                                   /\ hist.latest[r.key] # Get(e.msg, "data")
                                THEN hist.replaced \cup {r.key}
                                ELSE hist.replaced]
                      ELSE hist
    /\ UNCHANGED <<useHardcoded, socketRef, effects, dsockets>>
    /\ UNCHANGED <<pureVars, clientVars, uiVars>>

(***************************************************************************)
(* heatmap.tsx: the page's other state and the events that change it       *)
(***************************************************************************)
All == <<"A", "l", "l">>

\* expandedCategory === null
NoExpanded == << >>

\* the names of FIXED_CATEGORIES (lines 182-193) the model keeps
CategoryNames == {All, Crypto, Other}

\* the values of the buttons of the header (lines 799-804)
ShowButtons == {"all", "gainers", "losers", "lowVol"}

\* what the user types into the search box
SearchTexts == {<< >>, <<"b", "t", "c">>}

\* the initial value of filters (lines 412-429)
InitialFilters ==
    [search |-> << >>, show |-> "all", minChange |-> 0 - 100, maxChange |-> 100,
     minPrice |-> 0, maxPrice |-> PosInf, excludeStable |-> TRUE,
     sortBy |-> "weight", category |-> All]

\* the state the useState initialisers give on a screen where the media
\* query has the value mobile (lines 410-442)
UiInitial(mobile) ==
    [size |-> [width |-> 1024, height |-> 720],
     filters |-> InitialFilters,
     expandedCategory |-> NoExpanded,
     isMobile |-> mobile,
     sidebarVisible |-> ~mobile,
     sidebarOpen |-> FALSE,
     isFullscreen |-> FALSE]

\* the width and height getBoundingClientRect reports for the treemap
Measures == {<<0, 0>>, <<400, 200>>, <<1000, 700>>}

\* update() of the size observer (lines 529-532)
Measured(m) == [width |-> JSMax(10, m[1]), height |-> JSMax(10, m[2])]

\* the desktop sidebar is rendered (line 825)
SidebarShown ==
    ~ui.isMobile /\ ui.sidebarVisible /\ ui.expandedCategory = NoExpanded
        /\ ~ui.isFullscreen

\* a size observer whose callback also empties the store
Resize_clearing(m) ==
    /\ Mounted
    /\ ui' = [ui EXCEPT !.size = Measured(m)]
    /\ ev' = NoEvent("resize")
    /\ prices' = NoPrices
    /\ UNCHANGED <<useHardcoded, socketRef, effects, dsockets, hist>>
    /\ UNCHANGED <<pureVars, clientVars>>

\* the ResizeObserver reports a size (lines 534-536)
Resize(m) ==
    /\ Mounted
    /\ ui' = [ui EXCEPT !.size = Measured(m)]
    /\ ev' = NoEvent("resize")
    /\ UNCHANGED <<useHardcoded, prices, socketRef, effects, dsockets, hist>>
    /\ UNCHANGED <<pureVars, clientVars>>

\* a header control that sets one field of filters (lines 805, 812, 816)
SetFilter(field, value) ==
    /\ Mounted
    /\ ~ui.isFullscreen
    /\ ui' = [ui EXCEPT !.filters[field] = value]
    /\ ev' = NoEvent("filter")
    /\ UNCHANGED <<useHardcoded, prices, socketRef, effects, dsockets, hist>>
    /\ UNCHANGED <<pureVars, clientVars>>

\* what a category handler sets: filters.category and expandedCategory
SelectCategory(u, c) ==
    [u EXCEPT !.filters.category = c,
              !.expandedCategory = IF c = All THEN NoExpanded ELSE c]

\* a click on a category c, or on "All", in the desktop sidebar (lines 830,
\* 837), in the mobile drawer (lines 858, 861) or on the label of a
\* category on the treemap (line 892); the drawer also closes, which runs
\* the size effect again with measure m
ClickCategory(place, c, m) ==
    /\ Mounted
    /\ IF place = "sidebar" THEN
         /\ SidebarShown
         /\ ui' = SelectCategory(ui, c)
       ELSE IF place = "drawer" THEN
         /\ ui.isMobile
         /\ ui.sidebarOpen
         /\ ui' = [SelectCategory(ui, c) EXCEPT
                     !.sidebarOpen = FALSE, !.size = Measured(m)]
       ELSE
         /\ ui.expandedCategory = NoExpanded
         /\ DOMAIN prices # {}
         /\ c # All
         /\ ui' = SelectCategory(ui, c)
    /\ ev' = NoEvent("category")
    /\ UNCHANGED <<useHardcoded, prices, socketRef, effects, dsockets, hist>>
    /\ UNCHANGED <<pureVars, clientVars>>

\* toggleSidebar (line 469) from the desktop header button (line 788), the
\* mobile header button (line 792) or the close button of the drawer
\* (line 855); the size effect runs again with measure m
SidebarButton(button, m) ==
    /\ Mounted
    /\ IF button = "toggle" THEN
         /\ ~ui.isFullscreen
         /\ ~ui.isMobile
         /\ ui' = [ui EXCEPT !.sidebarVisible = ~ui.sidebarVisible,
                             !.size = Measured(m)]
       ELSE IF button = "open" THEN
         /\ ~ui.isFullscreen
         /\ ui.isMobile
         /\ ~ui.sidebarOpen
         /\ ui' = [ui EXCEPT !.sidebarOpen = TRUE, !.size = Measured(m)]
       ELSE
         /\ ui.isMobile
         /\ ui.sidebarOpen
         /\ ui' = [ui EXCEPT !.sidebarOpen = FALSE, !.size = Measured(m)]
    /\ ev' = NoEvent("sidebar")
    /\ UNCHANGED <<useHardcoded, prices, socketRef, effects, dsockets, hist>>
    /\ UNCHANGED <<pureVars, clientVars>>

\* onFsChange (line 485): the document entered or left fullscreen, after
\* enterFullscreen, exitFullscreen or the user's Escape key
FullscreenChange(m) ==
    /\ Mounted
    /\ ui' = [ui EXCEPT !.isFullscreen = ~ui.isFullscreen, !.size = Measured(m)]
    /\ ev' = NoEvent("fullscreen")
    /\ UNCHANGED <<useHardcoded, prices, socketRef, effects, dsockets, hist>>
    /\ UNCHANGED <<pureVars, clientVars>>

\* the media query changes its value (lines 447-456)
BreakpointChange(m) ==
    /\ Mounted
    /\ ui' = [ui EXCEPT !.isMobile = ~ui.isMobile,
                        !.sidebarVisible = ui.isMobile,
                        !.sidebarOpen = FALSE,
                        !.size = Measured(m)]
    /\ ev' = NoEvent("breakpoint")
    /\ UNCHANGED <<useHardcoded, prices, socketRef, effects, dsockets, hist>>
    /\ UNCHANGED <<pureVars, clientVars>>

StreamIdle ==
    /\ useHardcoded = USE_HARDCODED
    /\ prices = NoPrices
    /\ socketRef = 0
    /\ effects = << >>
    /\ dsockets = << >>
    /\ ev = NoEvent("none")
    /\ hist = [initial |-> NoPrices, latest |-> NoPrices, replaced |-> {}]
    /\ ui = UiInitial(FALSE)

(***************************************************************************)
(* socket.js: SocketClient                                                 *)
(***************************************************************************)
DEFAULT_RECONNECT_DELAY == 1000
MAX_RECONNECT_DELAY == 30000

MaxSockets == 2
MaxTimers == 2
MaxAttempts == 6

NoCall == [fn |-> "none"]

\* constructor (lines 25-36); hasUrl: whether url || _getDefaultWsUrl() is set
NewClient(hasUrl) ==
    [url |-> hasUrl, ws |-> 0, manualClose |-> FALSE,
     reconnectAttempts |-> 0, reconnectDelay |-> DEFAULT_RECONNECT_DELAY]

NoSockets == [s \in {} |-> 0]

\* a WebSocket leaves the model once it is CLOSED and this.ws is not it
Collect(socks, ws) ==
    [s \in {t \in DOMAIN socks : socks[t].readyState # "CLOSED" \/ t = ws}
        |-> socks[s]]

FreeSocketIds(socks) == (1..MaxSockets) \ DOMAIN socks

\* a connect() without the readyState check of line 44
connect_unguarded(c, socks) ==
    IF ~c.url THEN [client |-> c, sockets |-> socks, created |-> FALSE]
    ELSE
      LET kept == Collect(socks, 0)
          id   == CHOOSE i \in FreeSocketIds(kept) : \A j \in FreeSocketIds(kept) : i <= j
      IN  [client  |-> [c EXCEPT !.manualClose = FALSE, !.ws = id],
           sockets |-> [s \in DOMAIN kept \cup {id} |->
                          IF s = id THEN [readyState |-> "CONNECTING", listeners |-> TRUE]
                          ELSE kept[s]],
           created |-> TRUE]

\* connect() (lines 38-54): the client and its sockets afterwards, and
\* whether new WebSocket(url) ran
connect(c, socks) ==
    IF ~c.url THEN [client |-> c, sockets |-> socks, created |-> FALSE]
    ELSE IF c.ws # 0 /\ socks[c.ws].readyState \in {"OPEN", "CONNECTING"}
      THEN [client |-> c, sockets |-> socks, created |-> FALSE]
    ELSE
      LET kept == Collect(socks, 0)
          id   == CHOOSE i \in FreeSocketIds(kept) : \A j \in FreeSocketIds(kept) : i <= j
      IN  [client  |-> [c EXCEPT !.manualClose = FALSE, !.ws = id],
           sockets |-> [s \in DOMAIN kept \cup {id} |->
                          IF s = id THEN [readyState |-> "CONNECTING", listeners |-> TRUE]
                          ELSE kept[s]],
           created |-> TRUE]

\* connect() can run within the model's bound on sockets
CanConnect(c, socks) ==
    FreeSocketIds(Collect(socks, 0)) # {}

\* a delay that doubles without limit
ReconnectDelayFor_uncapped(c) == c.reconnectDelay * 2^(c.reconnectAttempts)

\* Math.min(MAX_RECONNECT_DELAY, reconnectDelay * Math.pow(2, reconnectAttempts))
ReconnectDelayFor(c) ==
    LET d == c.reconnectDelay * 2^(c.reconnectAttempts)
    IN  IF d > MAX_RECONNECT_DELAY THEN MAX_RECONNECT_DELAY ELSE d

\* the pending timers, kept in ascending order of delay
RECURSIVE AddTimer(_, _)
AddTimer(ts, d) ==
    IF Len(ts) = 0 THEN <<d>>
    ELSE IF d <= Head(ts) THEN <<d>> \o ts
    ELSE <<Head(ts)>> \o AddTimer(Tail(ts), d)

RemoveAt(ts, i) == SubSeq(ts, 1, i - 1) \o SubSeq(ts, i + 1, Len(ts))

\* the owner calls connect()
OwnerConnect ==
    /\ CanConnect(client, csockets)
    /\ LET r == connect(client, csockets) IN
        /\ client' = r.client
        /\ csockets' = r.sockets
        /\ cev' = [op |-> "connect", created |-> r.created, ownerClosed |-> FALSE]
    /\ UNCHANGED <<timers, call>>
    /\ UNCHANGED <<streamVars, uiVars>>

\* the 'open' event of socket s; _onOpen (lines 56-60) if still listened to
SocketOpened(s) ==
    /\ s \in DOMAIN csockets
    /\ csockets[s].readyState = "CONNECTING"
    /\ csockets' = [csockets EXCEPT ![s].readyState = "OPEN"]
    /\ client' = IF csockets[s].listeners
                 THEN [client EXCEPT !.reconnectAttempts = 0,
                                     !.reconnectDelay = DEFAULT_RECONNECT_DELAY]
                 ELSE client
    /\ cev' = [cev EXCEPT !.op = "open", !.created = FALSE]
    /\ UNCHANGED <<timers, call>>
    /\ UNCHANGED <<streamVars, uiVars>>

\* the 'close' event of socket s (the peer or the network closed it, or its
\* close() completed); _onClose and _scheduleReconnect (lines 80-95) if
\* still listened to
SocketClosed(s) ==
    /\ s \in DOMAIN csockets
    /\ csockets[s].readyState # "CLOSED"
    /\ LET schedules == csockets[s].listeners /\ ~client.manualClose IN
        /\ schedules => (Len(timers) < MaxTimers
                            /\ client.reconnectAttempts < MaxAttempts)
        /\ timers' = IF schedules THEN AddTimer(timers, ReconnectDelayFor(client))
                     ELSE timers
        /\ client' = IF schedules
                     THEN [client EXCEPT !.reconnectAttempts = @ + 1]
                     ELSE client
    /\ csockets' = Collect([csockets EXCEPT ![s].readyState = "CLOSED"], client.ws)
    /\ cev' = [cev EXCEPT !.op = "close-event", !.created = FALSE]
    /\ UNCHANGED call
    /\ UNCHANGED <<streamVars, uiVars>>

\* a reconnect timer fires: its callback calls connect() (lines 92-94)
TimerFires(i) ==
    /\ i \in 1..Len(timers)
    /\ CanConnect(client, csockets)
    /\ timers' = RemoveAt(timers, i)
    /\ LET r == connect(client, csockets) IN
        /\ client' = r.client
        /\ csockets' = r.sockets
        /\ cev' = [cev EXCEPT !.op = "timer", !.created = r.created]
    /\ UNCHANGED call
    /\ UNCHANGED <<streamVars, uiVars>>

\* close() (lines 134-145): the client and its sockets afterwards
close(c, socks) ==
    IF c.ws = 0 THEN [client |-> [c EXCEPT !.manualClose = TRUE], sockets |-> socks]
    ELSE [client  |-> [c EXCEPT !.manualClose = TRUE, !.ws = 0],
          sockets |-> Collect(
              [socks EXCEPT ![c.ws] =
                  [readyState |-> IF socks[c.ws].readyState = "CLOSED"
                                  THEN "CLOSED" ELSE "CLOSING",
                   listeners  |-> FALSE]], 0)]

\* the owner calls close()
OwnerClose ==
    /\ LET r == close(client, csockets) IN
        /\ client' = r.client
        /\ csockets' = r.sockets
    /\ cev' = [op |-> "close", created |-> FALSE, ownerClosed |-> TRUE]
    /\ UNCHANGED <<timers, call>>
    /\ UNCHANGED <<streamVars, uiVars>>

ClientIdle ==
    /\ client = NewClient(TRUE)
    /\ csockets = NoSockets
    /\ timers = << >>
    /\ cev = [op |-> "new", created |-> FALSE, ownerClosed |-> FALSE]

ClientInit ==
    /\ call = NoCall
    /\ StreamIdle
    /\ client \in {NewClient(TRUE), NewClient(FALSE)}
    /\ csockets = NoSockets
    /\ timers = << >>
    /\ cev = [op |-> "new", created |-> FALSE, ownerClosed |-> FALSE]

ClientNext ==
    \/ OwnerConnect
    \/ OwnerClose
    \/ \E s \in 1..MaxSockets : SocketOpened(s)
    \/ \E s \in 1..MaxSockets : SocketClosed(s)
    \/ \E i \in 1..MaxTimers : TimerFires(i)

ClientSpec == ClientInit /\ [][ClientNext]_vars

\* C4: once close() has been called the client makes no further reconnect
\* attempt: no new WebSocket is created after close() unless the owner calls
\* connect() again.
C4_NoReconnectAfterClose ==
    [][(cev.ownerClosed /\ cev'.op # "connect") => ~cev'.created]_vars

(***************************************************************************)
(* computeWeight applied to every price and change of a bounded range      *)
(***************************************************************************)
MaxAbsChange == 11

WeightPrices == {Missing, 0 - 2, 0 - 1, 0, 1, 9, 99, 3000, 50000}
WeightChanges == {Missing} \cup ((0 - MaxAbsChange)..MaxAbsChange)

WeightInit ==
    /\ call \in [fn : {"computeWeight"}, price : WeightPrices,
                 change : WeightChanges, done : {FALSE}, result : {Missing}]
    /\ ClientIdle
    /\ StreamIdle

ApplyComputeWeight ==
    /\ call.fn = "computeWeight"
    /\ ~call.done
    /\ call' = [call EXCEPT !.done = TRUE,
                            !.result = computeWeight(call.price, call.change)]
    /\ UNCHANGED clientVars
    /\ UNCHANGED <<streamVars, uiVars>>

WeightNext == ApplyComputeWeight

WeightSpec == WeightInit /\ [][WeightNext]_vars

\* C10: for every price (numeric or missing, of any sign) and every percent
\* change (numeric or missing), computeWeight returns a number that is at
\* least 0.6.
C10_WeightAtLeastFloor ==
    (call.fn = "computeWeight" /\ call.done)
        => (call.result # NaN /\ JSLe(600, call.result))

(***************************************************************************)
(* partition applied to every item list and box of a bounded range         *)
(***************************************************************************)
MaxItems == 3

NoCategory == << >>

\* a Rect as the pipeline builds it before layout (x, y, width, height 0)
Item(key, price, change, weight) ==
    [key |-> key, price |-> price, priceChange24hr |-> change,
     category |-> NoCategory, _weight |-> weight,
     x |-> 0, y |-> 0, width |-> 0, height |-> 0]

ItemPool ==
    { Item(<<"a">>, Missing, Missing, 0),
      Item(<<"b">>, Missing, Missing, 1000),
      Item(<<"c">>, Missing, Missing, 3000),
      Item(<<"d">>, 9, 0, Missing) }

ItemLists == UNION { [1..n -> ItemPool] : n \in 0..MaxItems }

BoxOrigins == {0, 12}
BoxLengths == {10, 22, 30, 100}

PartitionInit ==
    /\ ClientIdle
    /\ StreamIdle
    /\ \E its \in ItemLists, o \in BoxOrigins, w \in BoxLengths,
       h \in BoxLengths, hz \in BOOLEAN :
        call = [fn |-> "partition", items |-> its, x |-> o, y |-> o,
                w |-> w, h |-> h, horizontal |-> hz,
                done |-> FALSE, result |-> << >>]

ApplyPartition ==
    /\ call.fn = "partition"
    /\ ~call.done
    /\ call' = [call EXCEPT !.done = TRUE,
                            !.result = partition(call.items, call.x, call.y,
                                                 call.w, call.h, call.horizontal)]
    /\ UNCHANGED clientVars
    /\ UNCHANGED <<streamVars, uiVars>>

PartitionNext == ApplyPartition

PartitionSpec == PartitionInit /\ [][PartitionNext]_vars

RectInside(r, x, y, w, h) ==
    /\ r.x >= x /\ r.y >= y
    /\ r.x + r.width <= x + w
    /\ r.y + r.height <= y + h

RectsOverlap(r, s) ==
    /\ r.x < s.x + s.width /\ s.x < r.x + r.width
    /\ r.y < s.y + s.height /\ s.y < r.y + r.height

RECURSIVE AreaSum(_)
AreaSum(rects) ==
    IF Len(rects) = 0 THEN 0
    ELSE AreaSum(SubSeq(rects, 1, Len(rects) - 1))
           + rects[Len(rects)].width * rects[Len(rects)].height

\* C1: for every non-empty item list and every box with w, h > 0 the
\* rectangles returned by partition tile the box exactly: all inside the box,
\* pairwise non-overlapping, and their areas sum to w * h.
C1_TilesExactly ==
    (call.fn = "partition" /\ call.done /\ Len(call.items) >= 1
        /\ call.w > 0 /\ call.h > 0)
    => LET rs == call.result IN
       /\ \A i \in 1..Len(rs) : RectInside(rs[i], call.x, call.y, call.w, call.h)
       /\ \A i, j \in 1..Len(rs) : i < j => ~RectsOverlap(rs[i], rs[j])
       /\ AreaSum(rs) = call.w * call.h

\* C2: for every item list (total weight <= 0 included) and every box whose
\* width and height are both at least MIN_TILE, no rectangle returned by
\* partition has a width or a height below MIN_TILE.
C2_MinTileFloor ==
    (call.fn = "partition" /\ call.done
        /\ call.w >= MIN_TILE /\ call.h >= MIN_TILE)
    => \A i \in 1..Len(call.result) :
          /\ call.result[i].width >= MIN_TILE
          /\ call.result[i].height >= MIN_TILE

(***************************************************************************)
(* The driver: the component's store and its websocket effect              *)
(***************************************************************************)
BTC == <<"B", "T", "C">>
ETH == <<"E", "T", "H">>
SEVEN == <<"7">>

Json(v) == [parses |-> TRUE, msg |-> v]

PriceUpdate(d) == Json(JObj(("type" :> JStr(PRICE_UPDATE)) @@ ("data" :> d)))

\* payloads that carry a ticker key
D_full ==
    JObj(("symbol" :> JStr(BTC)) @@ ("price" :> JNum(50000)) @@
         ("priceChange24h" :> JNum(5)))
D_bare == JObj("symbol" :> JStr(BTC))
D_alt ==
    JObj(("symbol" :> JNull) @@ ("id" :> JNum(7)) @@ ("price" :> JStr(<<"x">>)) @@
         ("close" :> JStr(<<"1", "2">>)) @@ ("priceChange24h" :> JStr(<<"-", "3">>)))

\* payloads and messages the handler drops
D_nullkey == JObj(("symbol" :> JNull) @@ ("price" :> JNum(5)))
D_emptykey == JObj(("symbol" :> JStr(<< >>)) @@ ("id" :> JStr(ETH)))

E_notjson == [parses |-> FALSE, msg |-> JUndef]
E_null == Json(JNull)
E_other == Json(JObj(("type" :> JStr(Other)) @@ ("data" :> D_full)))
E_nodata == Json(JObj("type" :> JStr(PRICE_UPDATE)))

\* the message events the feed delivers in the model
MessageEvents ==
    { E_notjson, E_null, E_other, E_nodata,
      PriceUpdate(D_nullkey), PriceUpdate(D_emptykey),
      PriceUpdate(D_full), PriceUpdate(D_bare), PriceUpdate(D_alt) }

\* the component is constructed (lines 407-409) and no effect has run; the
\* source is built with USE_HARDCODED = true, the build with false is the
\* one in which the body of the websocket effect runs
Init ==
    /\ call = NoCall
    /\ ClientIdle
    /\ useHardcoded \in BOOLEAN
    /\ \E draw \in RandomDraws :
         prices = IF useHardcoded THEN buildInitialPricesMap(draw) ELSE NoPrices
    /\ socketRef = 0
    /\ effects = << >>
    /\ dsockets = << >>
    /\ ev = NoEvent("none")
    /\ hist = [initial |-> prices, latest |-> NoPrices, replaced |-> {}]
    /\ ui = UiInitial(FALSE)

Next ==
    \/ Mount
    \/ Unmount
    \/ \E i \in 1..MaxMounts : UrlResolved(i)
    \/ \E i \in 1..MaxMounts : UrlRejected(i)
    \/ \E s \in 1..MaxMounts : DSocketOpened(s)
    \/ \E s \in 1..MaxMounts : DSocketClosed(s)
    \/ \E s \in 1..MaxMounts, e \in MessageEvents : Deliver(s, e)

Spec == Init /\ [][Next]_vars

\* every socket the driver created is closing or closed
AllSocketsClosed ==
    \A s \in 1..Len(dsockets) : dsockets[s].readyState \in {"CLOSING", "CLOSED"}

\* C3: once the unmount has run, no socket opened by the driver remains
\* open and none is opened afterwards, whatever the order of mount, URL
\* resolution, socket creation and unmount
C3_SocketClosedOnUnmount ==
    (Len(effects) > 0 /\ ~Mounted) => AllSocketsClosed

\* a price_update whose data carries a ticker key under symbol, id or ticker
CarriesKey(e) ==
    /\ e.parses
    /\ e.msg.t = "object"
    /\ Get(e.msg, "type") = JStr(PRICE_UPDATE)
    /\ Get(e.msg, "data").t = "object"
    /\ \E f \in {"symbol", "id", "ticker"} : ~Nullish(Get(Get(e.msg, "data"), f))

\* C5: while mounted the driver obtains the signed URL and opens a socket,
\* and every well-formed price_update carrying a ticker key received on it
\* leaves the store holding, under that key, the snapshot derived from it
C5_MountedDriverStreams ==
    /\ Mounted => effects[Len(effects)].pc \in {"awaiting", "connected"}
    /\ \A i \in 1..Len(effects) :
         effects[i].pc = "connected" => \E s \in 1..Len(dsockets) : dsockets[s].effect = i
    /\ (ev.op = "message" /\ ~ev.afterCleanup /\ CarriesKey(ev.e)
          /\ ToStr(TickerField(Get(ev.e.msg, "data"))) # << >>) =>
         LET d == Get(ev.e.msg, "data")
             k == ToStr(TickerField(d))
         IN  /\ k \in DOMAIN prices
             /\ prices[k].data = d
             /\ prices[k].price = getNumericPrice(d)
             /\ prices[k].priceChange24hr = ChangeOf(d)

\* not valid JSON, a type other than "price_update", no data, or data with
\* no ticker key under symbol, id or ticker
Malformed(e) ==
    \/ ~e.parses
    \/ Nullish(e.msg)
    \/ Get(e.msg, "type") # JStr(PRICE_UPDATE)
    \/ Nullish(Get(e.msg, "data"))
    \/ \A f \in {"symbol", "id", "ticker"} : Nullish(Get(Get(e.msg, "data"), f))

\* C6: a message that is not valid JSON, whose type is not "price_update",
\* whose data is absent, or whose data carries no ticker key leaves the
\* store unchanged and no error leaves the handler
C6_MalformedDropped ==
    [][(ev'.op = "message" /\ Malformed(ev'.e)) =>
          (prices' = prices /\ ~ev'.escaped)]_vars

\* a price_update of another type's shape reached the live handler of a
\* mounted driver whose store is not empty
C6_Witness ==
    /\ ev.op = "message"
    /\ ev.e = E_other
    /\ ~ev.afterCleanup
    /\ Mounted
    /\ DOMAIN prices = {SEVEN}

\* C7: a message delivered to the handler after the unmount has run leaves
\* the store unchanged, a well-formed price_update included
C7_IgnoredAfterUnmount ==
    [][(ev'.op = "message" /\ ev'.afterCleanup) => prices' = prices]_vars

\* a well-formed price_update reached the handler of a run whose cleanup had
\* already run
C7_Witness ==
    /\ ev.op = "message"
    /\ ev.afterCleanup
    /\ ev.e = PriceUpdate(D_full)

\* C8: the store is the initial store overridden, for each updated key, by
\* the snapshot of the latest accepted update for that key alone; other
\* keys keep their snapshot and no key is removed
C8_LatestWins ==
    /\ DOMAIN prices = DOMAIN hist.initial \cup DOMAIN hist.latest
    /\ \A k \in DOMAIN prices :
         prices[k] = IF k \in DOMAIN hist.latest
                     THEN [data            |-> hist.latest[k],
                           price           |-> getNumericPrice(hist.latest[k]),
                           priceChange24hr |-> ChangeOf(hist.latest[k])]
                     ELSE hist.initial[k]

\* the key BTC was updated with a price and then by a payload without one,
\* while another key is in the store
C8_Witness ==
    /\ BTC \in hist.replaced
    /\ ev.op = "message"
    /\ ev.e = PriceUpdate(D_bare)
    /\ ~ev.afterCleanup
    /\ prices[BTC].price = Missing
    /\ SEVEN \in DOMAIN prices
    /\ prices[SEVEN].price = 12
    /\ prices[SEVEN].priceChange24hr = 0 - 3

(***************************************************************************)
(* The mounted page: resize, filters, categories, sidebar, fullscreen      *)
(***************************************************************************)
\* the message events the feed delivers while the page is used
UiMessageEvents == {PriceUpdate(D_full), E_other}

\* the page is mounted and has measured its treemap: with the feed, its
\* socket is open and the store empty; hardcoded, the store is the built map
UiInit ==
    /\ call = NoCall
    /\ ClientIdle
    /\ useHardcoded \in BOOLEAN
    /\ \E draw \in RandomDraws :
         prices = IF useHardcoded THEN buildInitialPricesMap(draw) ELSE NoPrices
    /\ socketRef = IF useHardcoded THEN 0 ELSE 1
    /\ effects = IF useHardcoded
                 THEN << [alive |-> FALSE, pc |-> "skipped", cleaned |-> FALSE] >>
                 ELSE << [alive |-> TRUE, pc |-> "connected", cleaned |-> FALSE] >>
    /\ dsockets = IF useHardcoded THEN << >>
                  ELSE << [readyState |-> "OPEN", effect |-> 1] >>
    /\ ev = NoEvent(IF useHardcoded THEN "mount" ELSE "open")
    /\ hist = [initial |-> prices, latest |-> NoPrices, replaced |-> {}]
    /\ \E mobile \in BOOLEAN, m \in Measures :
         ui = [UiInitial(mobile) EXCEPT !.size = Measured(m)]

UiNext ==
    \/ \E m \in Measures : Resize(m)
    \/ \E v \in ShowButtons : SetFilter("show", v)
    \/ SetFilter("excludeStable", ~ui.filters.excludeStable)
    \/ \E t \in SearchTexts : SetFilter("search", t)
    \/ \E place \in {"sidebar", "drawer", "treemap"}, c \in CategoryNames,
          m \in Measures : ClickCategory(place, c, m)
    \/ \E b \in {"toggle", "open", "close"}, m \in Measures : SidebarButton(b, m)
    \/ \E m \in Measures : FullscreenChange(m)
    \/ \E m \in Measures : BreakpointChange(m)
    \/ \E e \in UiMessageEvents : Deliver(1, e)

UiSpec == UiInit /\ [][UiNext]_vars

\* C9: every event other than an inbound stream message (a resize, a change
\* of the filters, expanding or collapsing a category, the sidebar and
\* fullscreen toggles) leaves the store unchanged
C9_OnlyMessagesWrite ==
    [][ev'.op # "message" => prices' = prices]_vars

\* a category was expanded after the feed had written BTC into the store
C9_Witness ==
    /\ ev.op = "category"
    /\ ui.expandedCategory = Crypto
    /\ BTC \in DOMAIN hist.latest
    /\ BTC \in DOMAIN prices

(***************************************************************************)
(* computeWeight applied to two prices and two changes                     *)
(***************************************************************************)
PairChanges == {Missing, 0 - MaxAbsChange, 0 - 10, 0 - 3, 0, 2, 10, MaxAbsChange}

WeightPairInit ==
    /\ call \in [fn : {"computeWeightPair"},
                 price1 : WeightPrices, change1 : PairChanges,
                 price2 : WeightPrices, change2 : PairChanges,
                 done : {FALSE}, result1 : {Missing}, result2 : {Missing}]
    /\ ClientIdle
    /\ StreamIdle

ApplyComputeWeightPair ==
    /\ call.fn = "computeWeightPair"
    /\ ~call.done
    /\ call' = [call EXCEPT !.done = TRUE,
                            !.result1 = computeWeight(call.price1, call.change1),
                            !.result2 = computeWeight(call.price2, call.change2)]
    /\ UNCHANGED clientVars
    /\ UNCHANGED <<streamVars, uiVars>>

WeightPairNext == ApplyComputeWeightPair

WeightPairSpec == WeightPairInit /\ [][WeightPairNext]_vars

\* |change ?? 0| as a whole percent
Magnitude(change) == IF change = Missing THEN 0 ELSE JSAbs(change)

\* C11: computeWeight is monotone: for a fixed change the weight does not
\* decrease when the price grows; for a fixed price it does not decrease
\* when |change| grows, and it is the same for all magnitudes of 10 or more
C11_WeightMonotone ==
    (call.fn = "computeWeightPair" /\ call.done) =>
      /\ (call.change1 = call.change2
            /\ call.price1 # Missing /\ call.price2 # Missing
            /\ call.price1 <= call.price2)
           => JSLe(call.result1, call.result2)
      /\ (call.price1 = call.price2
            /\ Magnitude(call.change1) <= Magnitude(call.change2))
           => JSLe(call.result1, call.result2)
      /\ (call.price1 = call.price2
            /\ Magnitude(call.change1) >= 10 /\ Magnitude(call.change2) >= 10)
           => call.result1 = call.result2

(***************************************************************************)
(* JavaScript strings: case, trim, includes, endsWith                      *)
(***************************************************************************)
UpperLetters ==
    <<"A", "B", "C", "D", "E", "F", "G", "H", "I", "J", "K", "L", "M", "N", "O", "P", "Q", "R", "S", "T", "U", "V", "W", "X", "Y", "Z">>
LowerLetters ==
    <<"a", "b", "c", "d", "e", "f", "g", "h", "i", "j", "k", "l", "m", "n", "o", "p", "q", "r", "s", "t", "u", "v", "w", "x", "y", "z">>
Digits == {"0", "1", "2", "3", "4", "5", "6", "7", "8", "9"}

Range(f) == {f[i] : i \in DOMAIN f}

ToUpperChar(c) ==
    IF \E i \in 1..26 : LowerLetters[i] = c
    THEN UpperLetters[CHOOSE i \in 1..26 : LowerLetters[i] = c] ELSE c

ToLowerChar(c) ==
    IF \E i \in 1..26 : UpperLetters[i] = c
    THEN LowerLetters[CHOOSE i \in 1..26 : UpperLetters[i] = c] ELSE c

\* s.toUpperCase()
toUpperCase(s) == [i \in 1..Len(s) |-> ToUpperChar(s[i])]

\* s.toLowerCase()
toLowerCase(s) == [i \in 1..Len(s) |-> ToLowerChar(s[i])]

\* s.includes(t)
includes(s, t) ==
    \E i \in 0..(Len(s) - Len(t)) : SubSeq(s, i + 1, i + Len(t)) = t

\* s.endsWith(t)
endsWith(s, t) ==
    Len(t) <= Len(s) /\ SubSeq(s, Len(s) - Len(t) + 1, Len(s)) = t

\* s.trim(): the blanks of the model are spaces
RECURSIVE trim(_)
trim(s) ==
    IF Len(s) = 0 THEN s
    ELSE IF Head(s) = " " THEN trim(Tail(s))
    ELSE IF s[Len(s)] = " " THEN trim(SubSeq(s, 1, Len(s) - 1))
    ELSE s

\* a character of the class \w
IsWordChar(c) ==
    c \in Range(UpperLetters) \cup Range(LowerLetters) \cup Digits \cup {"_"}

\* s matches /\bword\b/
matchesWord(s, word) ==
    \E i \in 0..(Len(s) - Len(word)) :
        /\ SubSeq(s, i + 1, i + Len(word)) = word
        /\ (i = 0 \/ ~IsWordChar(s[i]))
        /\ (i + Len(word) = Len(s) \/ ~IsWordChar(s[i + Len(word) + 1]))

\* the first truthy value among the fields fs of d, or "" (the || chains
\* of lines 220-221, 240-242, 251 and 264); d itself may be falsy
RECURSIVE FirstTruthy(_, _, _)
FirstTruthy(d, fs, i) ==
    IF Falsy(d) \/ i > Len(fs) THEN JStr(<< >>)
    ELSE IF ~Falsy(Get(d, fs[i])) THEN Get(d, fs[i])
    ELSE FirstTruthy(d, fs, i + 1)

(***************************************************************************)
(* heatmap.tsx: the category classifier                                    *)
(***************************************************************************)
\* the names of FIXED_CATEGORIES not defined above
Metals == <<"M", "e", "t", "a", "l", "s">>
Commodities == <<"C", "o", "m", "m", "o", "d", "i", "t", "i", "e", "s">>
Equities == <<"E", "q", "u", "i", "t", "i", "e", "s">>
ETF == <<"E", "T", "F">>
Indices == <<"I", "n", "d", "i", "c", "e", "s">>
FX == <<"F", "X">>
Bonds == <<"B", "o", "n", "d", "s">>

\* the words the classifier looks for in hints, exchanges and names
w_inc == <<"i", "n", "c">>
w_corp == <<"c", "o", "r", "p">>
w_ltd == <<"l", "t", "d">>
w_company == <<"c", "o", "m", "p", "a", "n", "y">>
w_crypto == <<"c", "r", "y", "p", "t", "o">>
w_digital == <<"d", "i", "g", "i", "t", "a", "l">>
w_metal == <<"m", "e", "t", "a", "l">>
w_precious == <<"p", "r", "e", "c", "i", "o", "u", "s">>
w_commodity == <<"c", "o", "m", "m", "o", "d", "i", "t", "y">>
w_commodities == <<"c", "o", "m", "m", "o", "d", "i", "t", "i", "e", "s">>
w_etf == <<"e", "t", "f">>
w_equity == <<"e", "q", "u", "i", "t", "y">>
w_stock == <<"s", "t", "o", "c", "k">>
w_index == <<"i", "n", "d", "e", "x">>
w_forex == <<"f", "o", "r", "e", "x">>
w_fx == <<"f", "x">>
w_currency == <<"c", "u", "r", "r", "e", "n", "c", "y">>
w_bond == <<"b", "o", "n", "d">>
w_treasury == <<"t", "r", "e", "a", "s", "u", "r", "y">>
w_binance == <<"b", "i", "n", "a", "n", "c", "e">>
w_coinbase == <<"c", "o", "i", "n", "b", "a", "s", "e">>
w_kraken == <<"k", "r", "a", "k", "e", "n">>
w_nyse == <<"n", "y", "s", "e">>
w_nasdaq == <<"n", "a", "s", "d", "a", "q">>
w_bitcoin == <<"b", "i", "t", "c", "o", "i", "n">>
w_ethereum == <<"e", "t", "h", "e", "r", "e", "u", "m">>
w_gold == <<"g", "o", "l", "d">>
w_silver == <<"s", "i", "l", "v", "e", "r">>
w_oil == <<"o", "i", "l">>
w_brent == <<"b", "r", "e", "n", "t">>
w_wti == <<"w", "t", "i">>
w_fund == <<"f", "u", "n", "d">>
w_share == <<"s", "h", "a", "r", "e">>

KNOWN_CRYPTO_TICKERS ==
    {<<"B", "T", "C">>, <<"E", "T", "H">>, <<"B", "N", "B">>,
      <<"A", "D", "A">>, <<"S", "O", "L">>, <<"D", "O", "T">>,
      <<"D", "O", "G", "E">>, <<"L", "T", "C">>, <<"X", "R", "P">>,
      <<"L", "I", "N", "K">>, <<"M", "A", "T", "I", "C">>,
      <<"A", "V", "A", "X">>, <<"A", "T", "O", "M">>, <<"T", "R", "X">>,
      <<"A", "L", "G", "O">>, <<"X", "L", "M">>, <<"F", "I", "L">>,
      <<"N", "E", "A", "R">>, <<"A", "P", "T">>}

KNOWN_QUOTE_SUFFIXES ==
    <<<<"U", "S", "D">>, <<"U", "S", "D", "T">>, <<"U", "S", "D", "C">>,
      <<"E", "U", "R">>, <<"G", "B", "P">>, <<"J", "P", "Y">>,
      <<"B", "T", "C">>, <<"E", "T", "H">>, <<"B", "U", "S", "D">>,
      <<"T", "R", "Y">>>>

METAL_IDENTIFIERS ==
    <<<<"X", "A", "U">>, <<"X", "A", "G">>, <<"G", "O", "L", "D">>,
      <<"S", "I", "L", "V", "E", "R">>, <<"X", "P", "T">>,
      <<"X", "P", "D">>, <<"P", "L", "A", "T", "I", "N", "U", "M">>,
      <<"P", "A", "L", "L", "A", "D", "I", "U", "M">>>>

COMMODITY_IDENTIFIERS ==
    <<<<"W", "T", "I">>, <<"B", "R", "E", "N", "T">>, <<"O", "I", "L">>,
      <<"N", "G">>, <<"G", "A", "S">>, <<"C", "O", "P", "P", "E", "R">>,
      <<"C", "O", "F", "F", "E", "E">>, <<"C", "O", "R", "N">>,
      <<"W", "H", "E", "A", "T">>, <<"S", "O", "Y">>,
      <<"S", "U", "G", "A", "R">>, <<"C", "O", "T", "T", "O", "N">>>>

fiatCandidates ==
    {<<"U", "S", "D">>, <<"E", "U", "R">>, <<"G", "B", "P">>,
      <<"J", "P", "Y">>, <<"A", "U", "D">>, <<"C", "A", "D">>,
      <<"C", "H", "F">>, <<"N", "Z", "D">>, <<"C", "N", "Y">>,
      <<"S", "G", "D">>}

\* the length of the longest prefix of s made of [A-Z0-9]
RECURSIVE AlnumPrefix(_)
AlnumPrefix(s) ==
    IF Len(s) = 0 THEN 0
    ELSE IF Head(s) \in Range(UpperLetters) \cup Digits THEN 1 + AlnumPrefix(Tail(s))
    ELSE 0

\* the loop of lines 211-213 from suffix i on
RECURSIVE StripQuote(_, _)
StripQuote(up, i) ==
    IF i > Len(KNOWN_QUOTE_SUFFIXES) THEN up
    ELSE IF endsWith(up, KNOWN_QUOTE_SUFFIXES[i]) /\ Len(up) > Len(KNOWN_QUOTE_SUFFIXES[i])
      THEN SubSeq(up, 1, Len(up) - Len(KNOWN_QUOTE_SUFFIXES[i]))
    ELSE StripQuote(up, i + 1)

extractBaseSymbol(key) ==
    IF key = << >> THEN key
    ELSE
      LET up == toUpperCase(key)
          n  == AlnumPrefix(up)
      IN  IF n >= 1 /\ n < Len(up) /\ up[n + 1] \in {"-", "_", "/", "."}
          THEN SubSeq(up, 1, n)
          ELSE StripQuote(up, 1)

\* upKey.split("/")
RECURSIVE split(_)
split(s) ==
    IF \E i \in 1..Len(s) : s[i] = "/"
    THEN LET i == CHOOSE k \in 1..Len(s) : s[k] = "/" /\ \A j \in 1..(k - 1) : s[j] # "/"
         IN  << SubSeq(s, 1, i - 1) >> \o split(SubSeq(s, i + 1, Len(s)))
    ELSE << s >>

\* key || "" for the key of a store entry, always a string
KeyOrEmpty(key) == key

detectCategory(d, key) ==
    LET upKey == toUpperCase(KeyOrEmpty(key))
        typeHints == toLowerCase(ToStr(FirstTruthy(d,
            <<"assetClass", "asset_class", "asset", "type", "instrumentType", "category">>, 1)))
        exchange == toLowerCase(ToStr(FirstTruthy(d, <<"exchange", "exchangeName", "market">>, 1)))
        base == extractBaseSymbol(upKey)
        name == toLowerCase(ToStr(FirstTruthy(d, <<"name", "fullName", "description">>, 1)))
    IN
    IF includes(typeHints, w_crypto) \/ includes(typeHints, w_digital) THEN Crypto
    ELSE IF includes(typeHints, w_metal) \/ includes(typeHints, w_precious) THEN Metals
    ELSE IF includes(typeHints, w_commodity) \/ includes(typeHints, w_commodities) THEN Commodities
    ELSE IF includes(typeHints, w_etf) THEN ETF
    ELSE IF includes(typeHints, w_equity) \/ includes(typeHints, w_stock) THEN Equities
    ELSE IF includes(typeHints, w_index) THEN Indices
    ELSE IF includes(typeHints, w_forex) \/ includes(typeHints, w_fx) \/ includes(typeHints, w_currency)
      THEN FX
    ELSE IF includes(typeHints, w_bond) \/ includes(typeHints, w_treasury) THEN Bonds
    ELSE IF includes(exchange, w_binance) \/ includes(exchange, w_coinbase) \/ includes(exchange, w_kraken)
      THEN Crypto
    ELSE IF includes(exchange, w_nyse) \/ includes(exchange, w_nasdaq) THEN Equities
    ELSE IF base = << >> THEN Other
    ELSE IF \E i \in 1..Len(METAL_IDENTIFIERS) :
              base = METAL_IDENTIFIERS[i] \/ includes(upKey, METAL_IDENTIFIERS[i])
      THEN Metals
    ELSE IF \E i \in 1..Len(COMMODITY_IDENTIFIERS) :
              base = COMMODITY_IDENTIFIERS[i] \/ includes(upKey, COMMODITY_IDENTIFIERS[i])
      THEN Commodities
    ELSE IF base \in KNOWN_CRYPTO_TICKERS THEN Crypto
    ELSE IF \E i \in 1..Len(KNOWN_QUOTE_SUFFIXES) :
              /\ endsWith(upKey, KNOWN_QUOTE_SUFFIXES[i])
              /\ SubSeq(upKey, 1, Len(upKey) - Len(KNOWN_QUOTE_SUFFIXES[i]))
                   \in KNOWN_CRYPTO_TICKERS
      THEN Crypto
    ELSE IF includes(name, w_bitcoin) \/ includes(name, w_ethereum) \/ includes(name, w_crypto)
      THEN Crypto
    ELSE IF includes(name, w_gold) \/ includes(name, w_silver) THEN Metals
    ELSE IF includes(name, w_oil) \/ includes(name, w_brent) \/ includes(name, w_wti)
      THEN Commodities
    ELSE IF includes(name, w_etf) THEN ETF
    ELSE IF (matchesWord(name, w_inc) \/ matchesWord(name, w_corp)
               \/ matchesWord(name, w_ltd) \/ matchesWord(name, w_company))
            /\ ~includes(name, w_fund)
      THEN Equities
    ELSE IF includes(name, w_index) THEN Indices
    ELSE IF Len(upKey) = 6 /\ (\A i \in 1..6 : upKey[i] \in Range(UpperLetters))
            /\ SubSeq(upKey, 1, 3) \in fiatCandidates
            /\ SubSeq(upKey, 4, 6) \in fiatCandidates
      THEN FX
    ELSE IF includes(upKey, <<"/">>) /\ Len(split(upKey)) = 2
            /\ split(upKey)[1] \in fiatCandidates /\ split(upKey)[2] \in fiatCandidates
      THEN FX
    ELSE IF endsWith(upKey, ETF) \/ includes(name, w_etf) THEN ETF
    ELSE Other

\* v.charAt(0).toUpperCase() + v.slice(1)
Capitalized(v) ==
    IF Len(v) = 0 THEN v ELSE << ToUpperChar(v[1]) >> \o Tail(v)

\* a classifier without the explicit-hint step of lines 219-235
getCategoryFromData_nohint(d, key) ==
    IF Falsy(d) /\ KeyOrEmpty(key) = << >> THEN Other ELSE detectCategory(d, key)

getCategoryFromData(d, key) ==
    IF Falsy(d) /\ KeyOrEmpty(key) = << >> THEN Other
    ELSE
      LET candidate == FirstTruthy(d,
            <<"assetClass", "asset_class", "assetType", "type", "instrumentType", "category">>, 1)
      IN  IF candidate.t = "string" /\ trim(candidate.s) # << >> THEN
            LET v  == trim(candidate.s)
                up == toLowerCase(v)
            IN  IF includes(up, w_crypto) \/ includes(up, w_digital) THEN Crypto
                ELSE IF includes(up, w_metal) \/ includes(up, w_precious) THEN Metals
                ELSE IF includes(up, w_commodity) THEN Commodities
                ELSE IF includes(up, w_etf) THEN ETF
                ELSE IF includes(up, w_equity) \/ includes(up, w_stock) \/ includes(up, w_share)
                  THEN Equities
                ELSE IF includes(up, w_index) THEN Indices
                ELSE IF includes(up, w_forex) \/ includes(up, w_fx) \/ includes(up, w_currency)
                  THEN FX
                ELSE IF includes(up, w_bond) \/ includes(up, w_treasury) THEN Bonds
                ELSE Capitalized(v)
          ELSE detectCategory(d, key)

(***************************************************************************)
(* The classifier applied to payloads with and without a hint              *)
(***************************************************************************)
\* the texts of the payloads and the keys
h_CryptoSpot == <<"C", "r", "y", "p", "t", "o", " ", "S", "p", "o", "t">>
h_spot == <<"s", "p", "o", "t">>
x_Binance == <<"B", "i", "n", "a", "n", "c", "e">>
x_NYSE == <<"N", "Y", "S", "E">>
n_GoldETF == <<"G", "o", "l", "d", " ", "E", "T", "F">>
n_AcmeInc == <<"A", "c", "m", "e", " ", "I", "n", "c">>
k_EURUSD == <<"E", "U", "R", "U", "S", "D">>
k_EUR_USD == <<"E", "U", "R", "/", "U", "S", "D">>
k_XAUUSD == <<"X", "A", "U", "U", "S", "D">>

\* the known vocabulary of hints and the category of each word
VocabularyCategory ==
    (w_crypto :> Crypto) @@
    (w_digital :> Crypto) @@
    (w_metal :> Metals) @@
    (w_precious :> Metals) @@
    (w_commodity :> Commodities) @@
    (w_etf :> ETF) @@
    (w_equity :> Equities) @@
    (w_stock :> Equities) @@
    (w_share :> Equities) @@
    (w_index :> Indices) @@
    (w_forex :> FX) @@
    (w_fx :> FX) @@
    (w_currency :> FX) @@
    (w_bond :> Bonds) @@
    (w_treasury :> Bonds) @@
    (h_CryptoSpot :> Crypto)

\* the fields a hint is read from (line 221)
HintFields ==
    {"assetClass", "asset_class", "assetType", "type", "instrumentType", "category"}

\* hint texts: the vocabulary and one text outside it
HintTexts == DOMAIN VocabularyCategory \cup {h_spot}

NoHint == [field |-> "none", text |-> << >>]

Hints == {NoHint} \cup [field : HintFields, text : HintTexts]

ExchangeTexts == {<< >>, x_Binance, x_NYSE}
NameTexts == {<< >>, n_GoldETF, n_AcmeInc}
ClassifyKeys == {k_EURUSD, k_EUR_USD, k_XAUUSD, BTC, VIX}

\* the object with field f set to the string t, or with no field when t is ""
Field(f, t) == IF t = << >> THEN NoFields ELSE (f :> JStr(t))

\* a payload with the hint, the exchange and the name given
Payload(hint, exchange, name) ==
    JObj((IF hint.field = "none" THEN NoFields ELSE (hint.field :> JStr(hint.text)))
         @@ Field("exchange", exchange) @@ Field("name", name))

ClassifyInit ==
    /\ \E hint \in Hints, exchange \in ExchangeTexts, name \in NameTexts,
          key \in ClassifyKeys :
         call = [fn |-> "getCategoryFromData", hint |-> hint,
                 d |-> Payload(hint, exchange, name), key |-> key,
                 done |-> FALSE, result |-> << >>]
    /\ ClientIdle
    /\ StreamIdle

ApplyGetCategory ==
    /\ call.fn = "getCategoryFromData"
    /\ ~call.done
    /\ call' = [call EXCEPT !.done = TRUE,
                            !.result = getCategoryFromData(call.d, call.key)]
    /\ UNCHANGED clientVars
    /\ UNCHANGED <<streamVars, uiVars>>

ClassifyNext == ApplyGetCategory

ClassifySpec == ClassifyInit /\ [][ClassifyNext]_vars

\* C12: when the payload carries a hint string of the known vocabulary the
\* classifier returns the category of that hint, whatever the exchange, the
\* key and the name say
C12_HintWins ==
    (call.fn = "getCategoryFromData" /\ call.done
        /\ call.hint.field # "none" /\ call.hint.text \in DOMAIN VocabularyCategory)
    => call.result = VocabularyCategory[call.hint.text]

\* assetClass "crypto" on a key that alone classifies as FX, with an
\* exchange that alone says Equities, came out as Crypto
C12_Witness ==
    /\ call.fn = "getCategoryFromData"
    /\ call.done
    /\ call.hint = [field |-> "assetClass", text |-> w_crypto]
    /\ call.key = k_EURUSD
    /\ Get(call.d, "exchange") = JStr(x_NYSE)
    /\ detectCategory(JObj(NoFields), k_EURUSD) = FX
    /\ detectCategory(JObj(NoFields), k_EUR_USD) = FX
    /\ call.result = Crypto

(***************************************************************************)
(* heatmap.tsx: the entries pipeline (lines 575-601)                       *)
(***************************************************************************)
HARD_RENDER_CAP == 700
TOP_RANKED == 30
TOP_VOLATILE == 40

\* ["USDT","USDC","DAI","BUSD","TUSD"] (line 581)
STABLE_SUFFIXES ==
    {<<"U", "S", "D", "T">>, <<"U", "S", "D", "C">>, <<"D", "A", "I">>,
     <<"B", "U", "S", "D">>, <<"T", "U", "S", "D">>}

\* a > b (false when either side is NaN)
JSGt(a, b) == a # NaN /\ b # NaN /\ ~JSLe(a, b)

\* v ?? 0
OrZero(v) == IF v = Missing THEN 0 ELSE v

\* a test that only knows the suffixes as whole keys
IsStable_whole(key) == key \in STABLE_SUFFIXES

\* [...].some((s) => e.key.endsWith(s)) (line 581)
IsStable(key) == \E s \in STABLE_SUFFIXES : endsWith(key, s)

\* the element line 576 makes of the store entry [k, v]
EntryOf(k, v) ==
    [Item(k, v.price, v.priceChange24hr, Missing) EXCEPT
        !.category = getCategoryFromData(v.data, k)]

\* a filter whose numeric bounds shut out the bounds themselves
KeepEntry_open(e, f, expanded) ==
    LET pct   == OrZero(e.priceChange24hr)
        price == OrZero(e.price)
    IN  IF f.excludeStable /\ IsStable(e.key) THEN FALSE
        ELSE IF f.search # << >> /\ ~includes(toLowerCase(e.key), toLowerCase(f.search))
          THEN FALSE
        ELSE IF f.show = "gainers" /\ pct <= 0 THEN FALSE
        ELSE IF f.show = "losers" /\ pct >= 0 THEN FALSE
        ELSE IF ~JSGt(pct, f.minChange) \/ ~JSGt(f.maxChange, pct) THEN FALSE
        ELSE IF ~JSGt(price, f.minPrice) \/ ~JSGt(f.maxPrice, price) THEN FALSE
        ELSE IF expanded # NoExpanded /\ expanded # All THEN e.category = expanded
        ELSE IF f.category # << >> /\ f.category # All /\ e.category # f.category
          THEN FALSE
        ELSE TRUE

\* the filter of lines 578-590: the entry e stays
KeepEntry(e, f, expanded) ==
    LET pct   == OrZero(e.priceChange24hr)
        price == OrZero(e.price)
    IN  IF f.excludeStable /\ IsStable(e.key) THEN FALSE
        ELSE IF f.search # << >> /\ ~includes(toLowerCase(e.key), toLowerCase(f.search))
          THEN FALSE
        ELSE IF f.show = "gainers" /\ pct <= 0 THEN FALSE
        ELSE IF f.show = "losers" /\ pct >= 0 THEN FALSE
        ELSE IF JSGt(f.minChange, pct) \/ JSGt(pct, f.maxChange) THEN FALSE
        ELSE IF JSGt(f.minPrice, price) \/ JSGt(price, f.maxPrice) THEN FALSE
        ELSE IF expanded # NoExpanded /\ expanded # All THEN e.category = expanded
        ELSE IF f.category # << >> /\ f.category # All /\ e.category # f.category
          THEN FALSE
        ELSE TRUE

\* data.filter(keep)
RECURSIVE FilterEntries(_, _, _)
FilterEntries(data, f, expanded) ==
    IF Len(data) = 0 THEN << >>
    ELSE (IF KeepEntry(Head(data), f, expanded) THEN << Head(data) >> ELSE << >>)
           \o FilterEntries(Tail(data), f, expanded)

\* the number the comparator of a sort subtracts: "gain" is the signed
\* change (lines 591-592), "move" its magnitude (lines 593, 596), "price"
\* the price (line 597), "_weight" the stored weight (line 631), "weight"
\* computeWeight (line 598)
Score(e, by) ==
    IF by = "gain" THEN OrZero(e.priceChange24hr)
    ELSE IF by = "move" THEN JSAbs(OrZero(e.priceChange24hr))
    ELSE IF by = "price" THEN OrZero(e.price)
    ELSE IF by = "_weight" THEN OrZero(e._weight)
    ELSE computeWeight(e.price, e.priceChange24hr)

\* a comparator whose direction turns with every pass
GoesBefore_turning(x, y, by, descending) ==
    IF descending = (call.passes % 2 = 0)
    THEN Score(x, by) > Score(y, by) ELSE Score(x, by) < Score(y, by)

\* x goes before y under the comparator (a, b) => score(b) - score(a) when
\* descending, score(a) - score(b) when not
GoesBefore(x, y, by, descending) ==
    IF descending THEN Score(x, by) > Score(y, by) ELSE Score(x, by) < Score(y, by)

\* x put into the sorted list, behind the elements it does not go before
RECURSIVE InsertSorted(_, _, _, _)
InsertSorted(sorted, x, by, descending) ==
    IF Len(sorted) = 0 THEN << x >>
    ELSE IF GoesBefore(x, Head(sorted), by, descending) THEN << x >> \o sorted
    ELSE << Head(sorted) >> \o InsertSorted(Tail(sorted), x, by, descending)

\* Array.prototype.sort with that comparator: a stable sort
RECURSIVE SortEntries(_, _, _)
SortEntries(data, by, descending) ==
    IF Len(data) = 0 THEN << >>
    ELSE InsertSorted(SortEntries(SubSeq(data, 1, Len(data) - 1), by, descending),
                      data[Len(data)], by, descending)

\* data.slice(0, n)
SliceTo(data, n) == SubSeq(data, 1, IF Len(data) < n THEN Len(data) ELSE n)

\* data.filter((e) => Math.abs(e.priceChange24hr ?? 0) <= 1.5), the change
\* a whole percent
RECURSIVE FilterCalm(_)
FilterCalm(data) ==
    IF Len(data) = 0 THEN << >>
    ELSE (IF 2 * JSAbs(OrZero(Head(data).priceChange24hr)) <= 3
          THEN << Head(data) >> ELSE << >>) \o FilterCalm(Tail(data))

\* ranking modes that cut the list without ordering it first
Ranked_firsts(data, show) ==
    IF show \in {"topGainers", "topLosers"} THEN SliceTo(data, TOP_RANKED)
    ELSE IF show = "highVol" THEN SliceTo(data, TOP_VOLATILE)
    ELSE IF show = "lowVol" THEN FilterCalm(data)
    ELSE data

\* lines 591-594: the view modes that rank
Ranked(data, show) ==
    IF show = "topGainers" THEN SliceTo(SortEntries(data, "gain", TRUE), TOP_RANKED)
    ELSE IF show = "topLosers" THEN SliceTo(SortEntries(data, "gain", FALSE), TOP_RANKED)
    ELSE IF show = "highVol" THEN SliceTo(SortEntries(data, "move", TRUE), TOP_VOLATILE)
    ELSE IF show = "lowVol" THEN FilterCalm(data)
    ELSE data

\* a general sort that runs in every view mode
GeneralSort_always(data, f) ==
    IF f.sortBy = "change" THEN SortEntries(data, "move", TRUE)
    ELSE IF f.sortBy = "price" THEN SortEntries(data, "price", TRUE)
    ELSE SortEntries(data, "weight", TRUE)

\* lines 595-599: the general sort
GeneralSort(data, f) ==
    IF f.show \in {"topGainers", "topLosers", "highVol"} THEN data
    ELSE IF f.sortBy = "change" THEN SortEntries(data, "move", TRUE)
    ELSE IF f.sortBy = "price" THEN SortEntries(data, "price", TRUE)
    ELSE SortEntries(data, "weight", TRUE)

\* the entries memo: store is Object.entries(prices), a list of <<k, v>>
entries(store, f, expanded) ==
    LET data == [i \in 1..Len(store) |-> EntryOf(store[i][1], store[i][2])]
    IN  SliceTo(GeneralSort(Ranked(FilterEntries(data, f, expanded), f.show), f),
                HARD_RENDER_CAP)

(***************************************************************************)
(* The entries pipeline applied to stores and filter settings              *)
(***************************************************************************)
MaxStore == 2
MaxSynth == 41

USDT == <<"U", "S", "D", "T">>
BTCUSDT == <<"B", "T", "C", "U", "S", "D", "T">>

\* the pair Object.entries gives for a key and its snapshot
StoreEntry(key, price, change) ==
    <<key, [data |-> JObj("symbol" :> JStr(key)), price |-> price,
            priceChange24hr |-> change]>>

StorePool ==
    { StoreEntry(USDT, 1, 0), StoreEntry(BTCUSDT, 50000, 5),
      StoreEntry(BTC, 50000, 5), StoreEntry(ETH, 3000, 0 - 2),
      StoreEntry(VIX, 9, 1) }

\* the stores of at most MaxStore keys, in every insertion order
SmallStores ==
    UNION { { s \in [1..n -> StorePool] :
                \A i, j \in 1..n : i # j => s[i][1] # s[j][1] } : n \in 0..MaxStore }

\* the keys K00, K01, ...
SynthKey(i) == <<"K", DigitChar[(i \div 10) + 1], DigitChar[(i % 10) + 1]>>

SynthPrices == <<0, 1, 9, 99, 3000, 50000>>

SynthPatterns == {"rising", "falling", "mixed", "tied"}

\* the change of the i-th key of a synthetic store
SynthChange(pattern, i) ==
    IF pattern = "rising" THEN i - 20
    ELSE IF pattern = "falling" THEN 20 - i
    ELSE IF pattern = "mixed" THEN ((i * 7) % 43) - 21
    ELSE (i % 3) - 1

\* a store of n keys
SynthStore(pattern, n) ==
    [i \in 1..n |-> StoreEntry(SynthKey(i), SynthPrices[(i % 6) + 1],
                               SynthChange(pattern, i))]

SynthSizes == {TOP_RANKED - 1, TOP_RANKED + 1, MaxSynth}

LargeStores == { SynthStore(p, n) : p \in SynthPatterns, n \in SynthSizes }

\* the values filters.show takes in lines 582-595
ShowModes == {"all", "gainers", "losers", "topGainers", "topLosers", "highVol", "lowVol"}

SortKeys == {"weight", "change", "price"}

\* filters.category and expandedCategory, together
CategoryViews == {<<All, NoExpanded>>, <<Crypto, NoExpanded>>, <<All, Crypto>>}

FilterSettings(searches, views) ==
    { [InitialFilters EXCEPT !.show = sh, !.sortBy = sb, !.excludeStable = ex,
                             !.search = se, !.category = v[1]] :
        sh \in ShowModes, sb \in SortKeys, ex \in BOOLEAN, se \in searches,
        v \in views }

PipelineInit ==
    /\ ClientIdle
    /\ StreamIdle
    /\ \E v \in CategoryViews :
         \/ \E store \in SmallStores,
                  f \in FilterSettings(IF v[2] = NoExpanded /\ v[1] = All
                                       THEN SearchTexts ELSE {<< >>}, {v}) :
              call = [fn |-> "entries", store |-> store, filters |-> f,
                      expanded |-> v[2], done |-> FALSE, result |-> << >>]
         \/ /\ v[2] = NoExpanded
            /\ v[1] = All
            /\ \E store \in LargeStores, f \in FilterSettings({<< >>}, {v}) :
                 call = [fn |-> "entries", store |-> store, filters |-> f,
                         expanded |-> v[2], done |-> FALSE, result |-> << >>]

ApplyEntries ==
    /\ ~call.done
    /\ call' = [call EXCEPT !.done = TRUE,
                            !.result = entries(call.store, call.filters, call.expanded)]
    /\ UNCHANGED clientVars
    /\ UNCHANGED <<streamVars, uiVars>>

PipelineNext == ApplyEntries

PipelineSpec == PipelineInit /\ [][PipelineNext]_vars

\* C13: with stablecoin exclusion enabled, no entry of the output has a key
\* that ends with one of the stablecoin suffixes, whatever the store and the
\* other settings are; the key USDT is never in the output.
C13_StablesExcluded ==
    (call.done /\ call.filters.excludeStable) =>
        \A i \in 1..Len(call.result) :
            /\ call.result[i].key # USDT
            /\ \A s \in STABLE_SUFFIXES : ~endsWith(call.result[i].key, s)

\* the store holds a pair quoted in USDT next to another key, the exclusion
\* is on, and the output shows the other key alone
C13_Witness ==
    /\ call.done
    /\ call.filters.excludeStable
    /\ \E i \in 1..Len(call.store) : call.store[i][1] = BTCUSDT
    /\ Len(call.store) = 2
    /\ Len(call.result) = 1

\* the entries that pass the filter of lines 578-590 in the call at hand
PassedFilter ==
    FilterEntries([i \in 1..Len(call.store) |->
                       EntryOf(call.store[i][1], call.store[i][2])],
                  call.filters, call.expanded)

\* out holds at most limit entries, as many as the filter lets through up to
\* that limit, each of them one that passed the filter, in descending order
\* of score by, and no entry left out scores higher than one that is in
TopOf(out, passed, limit, Order(_, _)) ==
    /\ Len(out) <= limit
    /\ Len(out) = (IF Len(passed) < limit THEN Len(passed) ELSE limit)
    /\ \A i \in 1..Len(out) : \E j \in 1..Len(passed) : out[i] = passed[j]
    /\ \A i, j \in 1..Len(out) : i < j => Order(out[i], out[j])
    /\ \A j \in 1..Len(passed) :
         (\A i \in 1..Len(out) : out[i] # passed[j]) =>
             \A i \in 1..Len(out) : Order(out[i], passed[j])

GainDescending(a, b) == OrZero(a.priceChange24hr) >= OrZero(b.priceChange24hr)
GainAscending(a, b) == OrZero(a.priceChange24hr) <= OrZero(b.priceChange24hr)
MoveDescending(a, b) ==
    JSAbs(OrZero(a.priceChange24hr)) >= JSAbs(OrZero(b.priceChange24hr))

\* C14: in top-gainers mode the output has at most 30 entries, in descending
\* order of signed change, and they are the highest-change entries among
\* those that pass the filter; top-losers gives at most 30 in ascending
\* order of change, high-volatility at most 40 in descending order of the
\* magnitude of the change.
C14_RankedModes ==
    call.done =>
        /\ call.filters.show = "topGainers" =>
               TopOf(call.result, PassedFilter, 30, GainDescending)
        /\ call.filters.show = "topLosers" =>
               TopOf(call.result, PassedFilter, 30, GainAscending)
        /\ call.filters.show = "highVol" =>
               TopOf(call.result, PassedFilter, 40, MoveDescending)

\* more than limit entries pass, no two with the same change, and out is
\* limit of them, led by another entry than the list that passed
CutAndReordered(out, passed, limit) ==
    /\ Len(passed) > limit
    /\ \A i, j \in 1..Len(passed) :
         i # j => passed[i].priceChange24hr # passed[j].priceChange24hr
    /\ Len(out) = limit
    /\ out[1] # passed[1]

\* more than 30 entries with distinct changes pass the filter in
\* top-gainers mode, and the output is the 30 of them
C14_Witness ==
    /\ call.done
    /\ call.filters.show = "topGainers"
    /\ CutAndReordered(call.result, PassedFilter, 30)

\* the output of the call at hand had its sort key been sb
ResultSortedBy(sb) ==
    entries(call.store, [call.filters EXCEPT !.sortBy = sb], call.expanded)

SortScore(e, sb) ==
    IF sb = "change" THEN JSAbs(OrZero(e.priceChange24hr))
    ELSE IF sb = "price" THEN OrZero(e.price)
    ELSE computeWeight(e.price, e.priceChange24hr)

\* out holds the entries of passed whose change is at most 1.5 in
\* magnitude, each once, in descending order of the score of the sort key
CalmSorted(out, passed, sb) ==
    /\ \A i \in 1..Len(out) :
         /\ 2 * JSAbs(OrZero(out[i].priceChange24hr)) <= 3
         /\ \E j \in 1..Len(passed) : out[i] = passed[j]
    /\ \A j \in 1..Len(passed) :
         2 * JSAbs(OrZero(passed[j].priceChange24hr)) <= 3 =>
             \E i \in 1..Len(out) : out[i] = passed[j]
    /\ \A i, j \in 1..Len(out) :
         i < j => (out[i] # out[j] /\ SortScore(out[i], sb) >= SortScore(out[j], sb))

MaxPasses == 3

PassInit ==
    /\ ClientIdle
    /\ StreamIdle
    /\ \/ \E store \in SmallStores, f \in FilterSettings({<< >>}, {<<All, NoExpanded>>}) :
            call = [fn |-> "entries", store |-> store, filters |-> f,
                    expanded |-> NoExpanded,
                    passes |-> 0, result |-> << >>, previous |-> << >>]
       \/ \E its \in ItemLists, o \in BoxOrigins, w \in BoxLengths,
             h \in BoxLengths, hz \in BOOLEAN :
            call = [fn |-> "partition", items |-> its, x |-> o, y |-> o,
                    w |-> w, h |-> h, horizontal |-> hz,
                    passes |-> 0, result |-> << >>, previous |-> << >>]

\* a render: the entries memo is computed from the store and the settings
RunEntries ==
    /\ call.fn = "entries"
    /\ call.passes < MaxPasses
    /\ call' = [call EXCEPT !.passes = @ + 1,
                            !.previous = call.result,
                            !.result = entries(call.store, call.filters, call.expanded)]
    /\ UNCHANGED clientVars
    /\ UNCHANGED <<streamVars, uiVars>>

\* a call of partition with the arguments of the call before
RunPartition ==
    /\ call.fn = "partition"
    /\ call.passes < MaxPasses
    /\ call' = [call EXCEPT !.passes = @ + 1,
                            !.previous = call.result,
                            !.result = partition(call.items, call.x, call.y,
                                                 call.w, call.h, call.horizontal)]
    /\ UNCHANGED clientVars
    /\ UNCHANGED <<streamVars, uiVars>>

PassNext == RunEntries \/ RunPartition

PassSpec == PassInit /\ [][PassNext]_vars

C16_WitnessPartition ==
    /\ call.fn = "partition"
    /\ call.passes >= 2
    /\ Len(call.result) >= 2

(***************************************************************************)
(* heatmap.tsx: groupedRects (lines 603-650)                               *)
(***************************************************************************)
TREEMAP_PADDING == 12
CATEGORY_HEADER_HEIGHT == 40

\* Math.max(10, n - TREEMAP_PADDING*2) (lines 604-605)
InnerLength(n) == JSMax(10, n - TREEMAP_PADDING * 2)

\* Math.min(CATEGORY_HEADER_HEIGHT, Math.floor(h * 0.18))
HeaderHeight(h) == JSMin(CATEGORY_HEADER_HEIGHT, (h * 18) \div 100)

Box(x, y, w, h) == [x |-> x, y |-> y, width |-> w, height |-> h]

\* a members' box that never sets a header strip aside
ItemsBox_whole(r) == Box(r.x, r.y, r.width, r.height)

\* the box the members of a region get: the region without its header
\* strip, or the whole region when too little is left (lines 619-623 and
\* 638-647)
ItemsBox(r) ==
    LET headerH    == HeaderHeight(r.height)
        itemsAreaH == JSMax(0, r.height - headerH)
    IN  IF itemsAreaH <= MIN_TILE THEN Box(r.x, r.y, r.width, r.height)
        ELSE Box(r.x, r.y + headerH, r.width, itemsAreaH)

\* the entries with their weights (lines 612-613)
Weighted(es) ==
    [i \in 1..Len(es) |->
        [es[i] EXCEPT !._weight = computeWeight(es[i].price, es[i].priceChange24hr)]]

\* the keys of the Map buckets, in the order they were set first
RECURSIVE BucketNames(_)
BucketNames(es) ==
    IF Len(es) = 0 THEN << >>
    ELSE LET before == BucketNames(SubSeq(es, 1, Len(es) - 1))
             cat    == es[Len(es)].category
         IN  IF \E i \in 1..Len(before) : before[i] = cat THEN before
             ELSE Append(before, cat)

\* buckets.get(name) ?? []
BucketOf(es, name) == SelectSeq(Weighted(es), LAMBDA e : e.category = name)

\* `__category__${name}`
CategoryKey(name) ==
    <<"_", "_", "c", "a", "t", "e", "g", "o", "r", "y", "_", "_">> \o name

\* lines 626-629; 0.0001 lies below one thousandth, and the weight of a
\* bucket is NaN or at least 600
Placeholders(es) ==
    LET names == BucketNames(es)
    IN  [i \in 1..Len(names) |->
            [Item(CategoryKey(names[i]), Missing, Missing,
                  JSMax(1, SumWeights(BucketOf(es, names[i]))))
                EXCEPT !.category = names[i]]]

\* lines 631-632: the region of each category
CategoryRegions(es, size) ==
    partition(SortEntries(Placeholders(es), "_weight", TRUE),
              TREEMAP_PADDING, TREEMAP_PADDING,
              InnerLength(size.width), InnerLength(size.height), TRUE)

\* partition of the members of a region into its members' box
MembersIn(es, r) ==
    LET b == ItemsBox(r)
    IN  partition(BucketOf(es, r.category), b.x, b.y, b.width, b.height, TRUE)

\* a loop that stops after the first region
MemberTiles_first(es, catRects) ==
    IF Len(catRects) = 0 THEN << >> ELSE MembersIn(es, Head(catRects))

\* the loop of lines 634-648 over catRects
RECURSIVE MemberTiles(_, _)
MemberTiles(es, catRects) ==
    IF Len(catRects) = 0 THEN << >>
    ELSE MembersIn(es, Head(catRects)) \o MemberTiles(es, Tail(catRects))

\* the box of the expanded branch (lines 616-623)
ExpandedBox(size) ==
    ItemsBox(Box(TREEMAP_PADDING, TREEMAP_PADDING,
                 InnerLength(size.width), InnerLength(size.height)))

groupedRects(es, size, expanded) ==
    IF expanded # NoExpanded /\ expanded # All
    THEN LET b == ExpandedBox(size)
         IN  partition(BucketOf(es, expanded), b.x, b.y, b.width, b.height, TRUE)
    ELSE MemberTiles(es, CategoryRegions(es, size))

(***************************************************************************)
(* The layout of a store: entries, then groupedRects                       *)
(***************************************************************************)
\* what the observer of the treemap measures (lines 529-532)
LayoutSizes ==
    { Measured(m) : m \in {<<0, 0>>, <<60, 60>>, <<400, 200>>, <<1024, 720>>} }

\* filters.category and expandedCategory as the page sets them
LayoutViews ==
    {<<All, NoExpanded>>, <<Crypto, NoExpanded>>, <<Crypto, Crypto>>, <<Other, Other>>}

LayoutInit ==
    /\ ClientIdle
    /\ StreamIdle
    /\ \E store \in SmallStores, ex \in BOOLEAN, v \in LayoutViews, size \in LayoutSizes :
         call = [fn |-> "groupedRects", store |-> store,
                 filters |-> [InitialFilters EXCEPT !.excludeStable = ex,
                                                    !.category = v[1]],
                 expanded |-> v[2], size |-> size, done |-> FALSE,
                 entries |-> << >>, regions |-> << >>, box |-> Box(0, 0, 0, 0),
                 result |-> << >>]

\* a render: entries, then groupedRects; regions keeps catRects of the
\* two-level branch, box the box the expanded branch hands to partition
ApplyLayout ==
    /\ ~call.done
    /\ LET es == entries(call.store, call.filters, call.expanded)
           isolated == call.expanded # NoExpanded /\ call.expanded # All
       IN  call' = [call EXCEPT
                       !.done = TRUE,
                       !.entries = es,
                       !.regions = IF isolated THEN << >>
                                   ELSE CategoryRegions(es, call.size),
                       !.box = IF isolated THEN ExpandedBox(call.size) ELSE @,
                       !.result = groupedRects(es, call.size, call.expanded)]
    /\ UNCHANGED clientVars
    /\ UNCHANGED <<streamVars, uiVars>>

LayoutNext == ApplyLayout

LayoutSpec == LayoutInit /\ [][LayoutNext]_vars

\* the store {BTC: 50000, 5; ETH: 3000, -2}, view mode all, nothing
\* excluded, laid out for a size of 400 by 200
BtcEthScenario ==
    /\ call.done
    /\ call.store \in
         { <<StoreEntry(BTC, 50000, 5), StoreEntry(ETH, 3000, 0 - 2)>>,
           <<StoreEntry(ETH, 3000, 0 - 2), StoreEntry(BTC, 50000, 5)>> }
    /\ call.filters.show = "all"
    /\ ~call.filters.excludeStable
    /\ call.filters.category = All
    /\ call.expanded = NoExpanded
    /\ call.size = [width |-> 400, height |-> 200]

Area(r) == r.width * r.height

\* two rectangles side by side or one above the other that make up w by h
TwoMakeUp(rects, w, h) ==
    /\ Len(rects) = 2
    /\ \/ rects[1].height = h /\ rects[2].height = h
          /\ rects[1].width + rects[2].width = w
       \/ rects[1].width = w /\ rects[2].width = w
          /\ rects[1].height + rects[2].height = h

\* the rectangle of key
RectOf(rects, key) == rects[CHOOSE i \in 1..Len(rects) : rects[i].key = key]

\* C17: for the store {BTC: price 50000, change 5; ETH: price 3000, change
\* -2}, view mode all, no exclusions and a 400 by 200 box, the layout is
\* two rectangles, that of BTC larger in area than that of ETH, whose widths
\* and heights add up to exactly 400 by 200.
C17_BtcEthFillBox ==
    BtcEthScenario =>
        /\ Len(call.result) = 2
        /\ Area(RectOf(call.result, BTC)) > Area(RectOf(call.result, ETH))
        /\ TwoMakeUp(call.result, 400, 200)

\* C17 as amended: for that store and a size of 400 by 200 the layout is two
\* rectangles, that of BTC larger in area than that of ETH; they lie side by
\* side in the padded inner area under the header strip of their category,
\* from (12, 43), and their widths and heights add up to 376 by 145.
C17_BtcEthFillItemsArea ==
    BtcEthScenario =>
        /\ Len(call.result) = 2
        /\ Area(RectOf(call.result, BTC)) > Area(RectOf(call.result, ETH))
        /\ TwoMakeUp(call.result, 376, 145)
        /\ \A i \in 1..2 : call.result[i].x >= 12 /\ call.result[i].y = 43
        /\ \E i \in 1..2 : call.result[i].x = 12

C17_Witness ==
    /\ BtcEthScenario
    /\ Len(call.result) = 2
    /\ Len(call.regions) = 1

\* the region catRects gives the category
RegionOf(regions, cat) ==
    regions[CHOOSE i \in 1..Len(regions) : regions[i].category = cat]

\* C18: in the two-level layout every member tile lies entirely inside the
\* region the category pass gave its category, and tiles of two different
\* categories never overlap.
C18_TilesInsideRegion ==
    (call.done /\ (call.expanded = NoExpanded \/ call.expanded = All)) =>
        /\ \A i \in 1..Len(call.result) :
             LET r == RegionOf(call.regions, call.result[i].category)
             IN  RectInside(call.result[i], r.x, r.y, r.width, r.height)
        /\ \A i, j \in 1..Len(call.result) :
             call.result[i].category # call.result[j].category =>
                 ~RectsOverlap(call.result[i], call.result[j])

\* C19: with a single category viewed in isolation the box handed to
\* partition is the whole inner area: its origin at the padding offset, its
\* width and height the full inner width and height.
C19_IsolatedUsesInnerArea ==
    (call.done /\ call.expanded # NoExpanded /\ call.expanded # All
        /\ Len(call.result) > 0) =>
        call.box = Box(TREEMAP_PADDING, TREEMAP_PADDING,
                       InnerLength(call.size.width), InnerLength(call.size.height))

(***************************************************************************)
(* SocketClient: the delays of the reconnect timers                        *)
(***************************************************************************)
\* min(30000, 1000 * 2^k)
Backoff(k) == IF 1000 * 2^k > 30000 THEN 30000 ELSE 1000 * 2^k

\* this step set one timer more, of delay d
Scheduled(d) ==
    /\ Len(timers') = Len(timers) + 1
    /\ \E i \in 1..Len(timers') : timers'[i] = d /\ RemoveAt(timers', i) = timers

\* C20: the reconnect delay follows capped exponential backoff: the k-th
\* reconnect scheduled in a row since the last open (k = 0, 1, 2, ...) waits
\* min(30000, 1000 * 2^k) ms, so the delays do not decrease, none exceeds
\* 30000 ms, and an open brings the next delay back to 1000 ms.  The count
\* k is reconnectAttempts: it moves only by one with each reconnect
\* scheduled and to 0 with an open.
C20_CappedBackoff ==
    [][/\ Len(timers') > Len(timers) =>
            /\ Scheduled(Backoff(client.reconnectAttempts))
            /\ client'.reconnectAttempts = client.reconnectAttempts + 1
            /\ Backoff(client'.reconnectAttempts) >= Backoff(client.reconnectAttempts)
       /\ \A i \in 1..Len(timers') : timers'[i] <= 30000
       /\ cev'.op = "open" =>
            /\ client'.reconnectAttempts = 0
            /\ ReconnectDelayFor(client') = 1000
       /\ (Len(timers') <= Len(timers) /\ cev'.op # "open") =>
            client'.reconnectAttempts = client.reconnectAttempts]_vars

\* the sixth reconnect in a row is pending with the capped delay, after the
\* delays 1000 up to 16000 were used
C20_Witness ==
    /\ client.reconnectAttempts >= 6
    /\ \E i \in 1..Len(timers) : timers[i] = 30000

\* an open after failed attempts: the count is back to 0
C20_WitnessReset ==
    /\ cev.op = "open"
    /\ client.reconnectAttempts = 0
    /\ Len(timers) > 0

(***************************************************************************)
(* The filter of the pipeline under varied bounds                          *)
(***************************************************************************)
XRP == <<"X", "R", "P">>
LTC == <<"L", "T", "C">>
DXY == <<"D", "X", "Y">>

FilterPool ==
    { StoreEntry(BTC, 50000, 5), StoreEntry(ETH, 3000, 0 - 2),
      StoreEntry(BTCUSDT, 1, 0), StoreEntry(VIX, Missing, Missing),
      StoreEntry(DXY, 0 - 1, 1), StoreEntry(XRP, 9, 101),
      StoreEntry(LTC, 9, 0 - 100) }

FilterStores ==
    UNION { { s \in [1..n -> FilterPool] :
                \A i, j \in 1..n : i # j => s[i][1] # s[j][1] } : n \in 0..MaxStore }

\* <<minChange, maxChange>> and <<minPrice, maxPrice>>
ChangeBounds == {<<0 - 100, 100>>, <<0, 5>>}
PriceBounds == {<<0, PosInf>>, <<0 - 1, 3000>>}

FilterSearches == {<< >>, <<"B", "t">>}

FilterInit ==
    /\ ClientIdle
    /\ StreamIdle
    /\ \E store \in FilterStores, sh \in {"all", "gainers", "losers"},
          ex \in BOOLEAN, se \in FilterSearches, cb \in ChangeBounds,
          pb \in PriceBounds, v \in CategoryViews :
         call = [fn |-> "entries", store |-> store,
                 filters |-> [InitialFilters EXCEPT
                                 !.show = sh, !.excludeStable = ex, !.search = se,
                                 !.minChange = cb[1], !.maxChange = cb[2],
                                 !.minPrice = pb[1], !.maxPrice = pb[2],
                                 !.category = v[1]],
                 expanded |-> v[2], done |-> FALSE, result |-> << >>]

FilterSpec == FilterInit /\ [][PipelineNext]_vars

\* the key k with snapshot v passes every active predicate
Qualifies(k, v, f, expanded) ==
    LET change == OrZero(v.priceChange24hr)
        price  == OrZero(v.price)
        cat    == getCategoryFromData(v.data, k)
    IN  /\ ~(f.excludeStable /\ \E s \in STABLE_SUFFIXES : endsWith(k, s))
        /\ f.search = << >> \/ includes(toLowerCase(k), toLowerCase(f.search))
        /\ f.show = "gainers" => change > 0
        /\ f.show = "losers" => change < 0
        /\ JSLe(f.minChange, change) /\ JSLe(change, f.maxChange)
        /\ JSLe(f.minPrice, price) /\ JSLe(price, f.maxPrice)
        /\ IF expanded # NoExpanded /\ expanded # All THEN cat = expanded
           ELSE f.category = All \/ cat = f.category

\* C21: in the view modes all, gainers and losers, with fewer entries than
\* the render cap, the output holds exactly the store keys that pass every
\* active predicate (stablecoin exclusion, search in the key without regard
\* to case, the sign of the change, the bounds on change and price, the
\* category filter), each once.
C21_OutputIsQualifying ==
    (call.done /\ call.filters.show \in {"all", "gainers", "losers"}
        /\ Len(call.store) < 700) =>
        /\ { call.result[i].key : i \in 1..Len(call.result) }
             = { call.store[i][1] : i \in
                   { j \in 1..Len(call.store) :
                       Qualifies(call.store[j][1], call.store[j][2],
                                 call.filters, call.expanded) } }
        /\ \A i, j \in 1..Len(call.result) :
             i # j => call.result[i].key # call.result[j].key

\* a store of which one key passes and the other sits on a bound of the
\* change that is narrower than the default
C21_Witness ==
    /\ call.done
    /\ call.filters.minChange = 0
    /\ Len(call.store) = 2
    /\ Len(call.result) = 2
    /\ \E i \in 1..2 : call.result[i].priceChange24hr = 5
    /\ \E i \in 1..2 : call.result[i].priceChange24hr = 0

(***************************************************************************)
(* partition: where it splits                                              *)
(***************************************************************************)
\* the sum of the weights of the first k items
PrefixWeight(items, k) == SumWeights(SubSeq(items, 1, k))

\* the size of group A: the smallest prefix that reaches half the total,
\* cut down so that group B is not empty
GroupASize(items) ==
    LET n     == Len(items)
        total == PrefixWeight(items, n)
        reach == {k \in 1..n : 2 * PrefixWeight(items, k) >= total}
        first == CHOOSE k \in reach : \A j \in reach : k <= j
    IN  IF first > n - 1 THEN n - 1 ELSE first

\* the call at hand is the general case: two items or more, a total weight
\* above 0
GeneralCase ==
    /\ call.fn = "partition"
    /\ call.done
    /\ Len(call.items) >= 2
    /\ IsFinite(SumWeights(call.items))
    /\ SumWeights(call.items) > 0

\* C22: in the general case partition splits at the smallest index whose
\* prefix weight reaches half the total (also when it equals half exactly),
\* keeps both groups non-empty, lays group A, the prefix, into the first
\* sub-region and group B, the rest, into the second, each with the
\* orientation flipped.
C22_SplitsAtHalf ==
    GeneralCase =>
        LET k     == GroupASize(call.items)
            n     == Len(call.items)
            A     == SubSeq(call.items, 1, k)
            B     == SubSeq(call.items, k + 1, n)
            total == SumWeights(call.items)
            along == IF call.horizontal THEN call.w ELSE call.h
            first == safe(JSMulDivFloor(along, SumWeights(A), total))
            rest  == safe(along - first)
        IN  /\ k >= 1 /\ k <= n - 1
            /\ call.result =
                 IF call.horizontal
                 THEN partition(A, call.x, call.y, first, call.h, FALSE)
                        \o partition(B, call.x + first, call.y, rest, call.h, FALSE)
                 ELSE partition(A, call.x, call.y, call.w, first, TRUE)
                        \o partition(B, call.x, call.y + first, call.w, rest, TRUE)

\* three items of which the first alone weighs exactly half the total
C22_Witness ==
    /\ GeneralCase
    /\ Len(call.items) = 3
    /\ 2 * ItemWeight(call.items[1]) = SumWeights(call.items)
    /\ call.result[1].width < call.w

\* C23: with two items or more and a total weight of 0 or less partition
\* returns without raising: it cuts the list into its first and second half
\* and halves the box along the current axis (the width when horizontal,
\* the height when not), each half laid out with the orientation flipped.
C23_EvenSplitAlongAxis ==
    (call.fn = "partition" /\ call.done /\ Len(call.items) >= 2
        /\ IsFinite(SumWeights(call.items)) /\ SumWeights(call.items) <= 0) =>
        LET n      == Len(call.items)
            half   == n \div 2
            first  == SubSeq(call.items, 1, half)
            second == SubSeq(call.items, half + 1, n)
        IN  /\ Len(call.result) = n
            /\ call.result =
                 IF call.horizontal
                 THEN partition(first, call.x, call.y, call.w \div 2, call.h, FALSE)
                        \o partition(second, call.x + (call.w \div 2), call.y,
                                     call.w - (call.w \div 2), call.h, FALSE)
                 ELSE partition(first, call.x, call.y, call.w, call.h \div 2, TRUE)
                        \o partition(second, call.x, call.y + (call.h \div 2),
                                     call.w, call.h - (call.h \div 2), TRUE)

(***************************************************************************)
(* partition: the depth of its recursion                                   *)
(***************************************************************************)
MaxDepthItems == 4

\* the levels of nested calls below a call of partition on items (lines
\* 141-178), counted as far as fuel goes
RECURSIVE DepthFrom(_, _)
DepthFrom(items, fuel) ==
    IF fuel = 0 THEN 0
    ELSE IF Len(items) <= 1 THEN 0
    ELSE
      LET total == SumWeights(items) IN
      IF JSLe(total, 0) THEN
        LET half == Len(items) \div 2
            d1   == DepthFrom(SubSeq(items, 1, half), fuel - 1)
            d2   == DepthFrom(SubSeq(items, half + 1, Len(items)), fuel - 1)
        IN  1 + (IF d1 > d2 THEN d1 ELSE d2)
      ELSE
        LET idx == SplitIndex(items, total)
            d1  == DepthFrom(SubSeq(items, 1, idx + 1), fuel - 1)
            d2  == DepthFrom(SubSeq(items, idx + 2, Len(items)), fuel - 1)
        IN  1 + (IF d1 > d2 THEN d1 ELSE d2)

\* the depth of the recursion of partition(items, ...); a result above
\* Len(items) stands for a recursion that does not come to an end
partitionDepth(items) == DepthFrom(items, Len(items) + 1)

DepthWeights == {NaN, 0, 600, 1000, 2000, 4000}

DepthLists ==
    UNION { [1..n -> { Item(<<"a">>, Missing, Missing, w) : w \in DepthWeights }] :
              n \in 1..MaxDepthItems }

DepthInit ==
    /\ ClientIdle
    /\ StreamIdle
    /\ \E its \in DepthLists :
         call = [fn |-> "partition", items |-> its, done |-> FALSE, depth |-> 0]

ApplyDepth ==
    /\ ~call.done
    /\ call' = [call EXCEPT !.done = TRUE, !.depth = partitionDepth(call.items)]
    /\ UNCHANGED clientVars
    /\ UNCHANGED <<streamVars, uiVars>>

DepthNext == ApplyDepth

DepthSpec == DepthInit /\ [][DepthNext]_vars

\* the smallest d with 2^d >= n
CeilLog2(n) == CHOOSE d \in 0..n : 2^d >= n /\ \A e \in 0..(d - 1) : 2^e < n

\* C24: for every list of n >= 1 items and every assignment of weights
\* partition terminates, and its recursion goes at most ceil(log2 n) levels
\* below the initial call.
C24_DepthLogarithmic ==
    call.done => call.depth <= CeilLog2(Len(call.items))

\* C24 as amended: for every list of n >= 1 items and every assignment of
\* weights partition terminates, and its recursion goes at most n - 1
\* levels below the initial call.
C24_DepthLinear ==
    call.done => call.depth <= Len(call.items) - 1

\* four items each of which weighs at least as much as all behind it: the
\* recursion peels them off one by one
C24_Witness ==
    /\ call.done
    /\ Len(call.items) = 4
    /\ call.depth = 3
    /\ call.items[1]._weight = 4000
    /\ call.items[2]._weight = 2000

(***************************************************************************)
(* groupedRects: the lists it hands to partition                           *)
(***************************************************************************)
\* the items of every call of partition groupedRects makes itself, in the
\* order of the calls: line 623 or 624 in the expanded branch, line 632 and
\* then line 642 or 645 for every region
TopLevelItems(es, size, expanded) ==
    IF expanded # NoExpanded /\ expanded # All
    THEN (IF Len(BucketOf(es, expanded)) = 0 THEN << >>
          ELSE << BucketOf(es, expanded) >>)
    ELSE IF Len(es) = 0 THEN << >>
    ELSE LET sorted  == SortEntries(Placeholders(es), "_weight", TRUE)
             regions == CategoryRegions(es, size)
         IN  << sorted >> \o
             [i \in 1..Len(regions) |-> BucketOf(es, regions[i].category)]

GroupingInit ==
    /\ ClientIdle
    /\ StreamIdle
    /\ \E store \in FilterStores, sh \in ShowModes, sb \in SortKeys,
          v \in {<<All, NoExpanded>>, <<Crypto, Crypto>>} :
         call = [fn |-> "groupedRects", store |-> store,
                 filters |-> [InitialFilters EXCEPT !.show = sh, !.sortBy = sb,
                                                    !.category = v[1]],
                 expanded |-> v[2], size |-> [width |-> 400, height |-> 200],
                 done |-> FALSE, entries |-> << >>, lists |-> << >>,
                 result |-> << >>]

\* a render: entries, then groupedRects; lists keeps the items of its calls
\* of partition
ApplyGrouping ==
    /\ ~call.done
    /\ LET es == entries(call.store, call.filters, call.expanded)
       IN  call' = [call EXCEPT
                       !.done = TRUE,
                       !.entries = es,
                       !.lists = TopLevelItems(es, call.size, call.expanded),
                       !.result = groupedRects(es, call.size, call.expanded)]
    /\ UNCHANGED clientVars
    /\ UNCHANGED <<streamVars, uiVars>>

GroupingNext == ApplyGrouping

GroupingSpec == GroupingInit /\ [][GroupingNext]_vars

\* C25: every call of partition the grouping layer makes (the pass over the
\* category placeholders and the pass over the members of each category,
\* grouped or with one category isolated) gets its items in descending
\* order of weight, whatever the sort key and the view mode are.
C25_ItemsSortedByWeight ==
    call.done =>
        \A c \in 1..Len(call.lists) :
            \A i, j \in 1..Len(call.lists[c]) :
                i < j => ItemWeight(call.lists[c][i]) >= ItemWeight(call.lists[c][j])

(***************************************************************************)
(* heatmap.tsx: fitText (lines 689-717)                                    *)
(***************************************************************************)
MaxFont == 11

\* fits(sizePx) for a label that fits up to the size limit: the font size
\* of the element becomes sizePx (line 695)
fits(sizePx, limit) == sizePx <= limit

\* a turn of the loop that goes on below a size that fits
Probe_downwards(c) ==
    LET mid == (c.a + c.b) \div 2
    IN  IF fits(mid, c.limit)
        THEN [c EXCEPT !.fontSize = mid, !.best = mid, !.b = mid - 1]
        ELSE [c EXCEPT !.fontSize = mid, !.a = mid + 1]

\* one turn of the loop of lines 705-713
Probe(c) ==
    LET mid == (c.a + c.b) \div 2
    IN  IF fits(mid, c.limit)
        THEN [c EXCEPT !.fontSize = mid, !.best = mid, !.a = mid + 1]
        ELSE [c EXCEPT !.fontSize = mid, !.b = mid - 1]

\* the call fitText(el, maxWidth, maxHeight, lo, hi) up to line 704; the
\* element, when there is one, shows its label at size shown
FitInit ==
    /\ ClientIdle
    /\ StreamIdle
    /\ \E el \in BOOLEAN, lo \in 6..MaxFont, limit \in 4..(MaxFont + 1),
          shown \in {6, MaxFont} :
         \E hi \in lo..MaxFont :
           call = [fn |-> "fitText", el |-> el, lo |-> lo, hi |-> hi,
                   limit |-> limit, fontSize |-> shown,
                   a |-> lo, b |-> hi, best |-> lo,
                   done |-> ~el, result |-> lo]

\* a turn of the while loop
FitProbe ==
    /\ ~call.done
    /\ call.a <= call.b
    /\ call' = Probe(call)
    /\ UNCHANGED clientVars
    /\ UNCHANGED <<streamVars, uiVars>>

\* lines 714-715
FitReturn ==
    /\ ~call.done
    /\ call.a > call.b
    /\ call' = [call EXCEPT !.done = TRUE, !.fontSize = call.best,
                            !.result = call.best]
    /\ UNCHANGED clientVars
    /\ UNCHANGED <<streamVars, uiVars>>

FitNext == FitProbe \/ FitReturn

FitSpec == FitInit /\ [][FitNext]_vars

\* the sizes of the range that fit
Fitting == { s \in call.lo..call.hi : s <= call.limit }

\* C26: for every range lo <= hi and every fit predicate that is monotone in
\* the font size fitText terminates (every turn of its loop narrows the
\* interval that is left) and returns the largest integer size of [lo, hi]
\* that fits, or lo when none fits; the font size of the element is the
\* value returned.
C26_LargestFit ==
    /\ [](call.done /\ call.el =>
            /\ call.result = (IF Fitting = {} THEN call.lo
                              ELSE CHOOSE s \in Fitting : \A t \in Fitting : t <= s)
            /\ call.fontSize = call.result)
    /\ [][~call.done =>
            \/ call'.done
            \/ /\ call'.b - call'.a < call.b - call.a
               /\ call'.b - call'.a >= 0 - 1]_vars

\* a search over several sizes that ends on a size strictly inside the range
C26_Witness ==
    /\ call.done
    /\ call.el
    /\ call.hi - call.lo >= 4
    /\ call.result > call.lo
    /\ call.result < call.hi

\* the keys of a list of rectangles, in its order
KeysOf(rects) == [i \in 1..Len(rects) |-> rects[i].key]

\* the rectangles of category cat, in the order of the list
OfCategory(rects, cat) == SelectSeq(rects, LAMBDA r : r.category = cat)

\* C27: the layout gives exactly one tile per filtered entry: the keys of
\* the rectangles of the grouping layer are the keys of the pipeline output,
\* each once (with a category isolated: the members of that category), and
\* partition returns one rectangle per item in the order of its input, so
\* the tiles of a category follow the order of its entries.
C27_OneTilePerEntry ==
    call.done =>
        /\ Len(call.result) = Len(call.entries)
        /\ { call.result[i].key : i \in 1..Len(call.result) }
             = { call.entries[i].key : i \in 1..Len(call.entries) }
        /\ \A i, j \in 1..Len(call.result) :
             i # j => call.result[i].key # call.result[j].key
        /\ \A i \in 1..Len(call.entries) :
             KeysOf(OfCategory(call.result, call.entries[i].category))
               = KeysOf(OfCategory(call.entries, call.entries[i].category))
        /\ (call.expanded # NoExpanded /\ call.expanded # All) =>
             \A i \in 1..Len(call.result) : call.result[i].category = call.expanded
        /\ (call.expanded = NoExpanded \/ call.expanded = All) =>
             KeysOf(call.regions)
               = KeysOf(SortEntries(Placeholders(call.entries), "_weight", TRUE))

\* two entries of two categories, each with its tile
C27_Witness ==
    /\ call.done
    /\ Len(call.regions) = 2
    /\ Len(call.result) = 2
    /\ call.result[1].category # call.result[2].category

(***************************************************************************)
(* Leaving the isolated view of a category                                 *)
(***************************************************************************)
\* a control that sets expandedCategory to null can be clicked now: "All"
\* in the desktop sidebar (line 830) or in the open mobile drawer (line 858)
ClearControlShown ==
    \E place \in {"sidebar", "drawer"}, m \in Measures :
        ENABLED ClickCategory(place, All, m)

\* the user can bring such a control up without a change of breakpoint: on
\* a mobile layout the header's button opens the drawer (line 792), after
\* leaving fullscreen where the header is hidden (line 784)
ClearControlInReach ==
    \/ ClearControlShown
    \/ /\ ~ui.isFullscreen
       /\ \E m \in Measures : ENABLED SidebarButton("open", m)
    \/ /\ ui.isFullscreen
       /\ ui.isMobile
       /\ \E m \in Measures : ENABLED FullscreenChange(m)

\* C28: in every state where a category is viewed in isolation the user has
\* an action that clears the isolation and returns to the view of all
\* categories, on the desktop layout as on the mobile one, without a change
\* of breakpoint
C28_IsolationCanBeLeft ==
    ui.expandedCategory # NoExpanded => ClearControlInReach

(***************************************************************************)
(* heatmap.tsx: the categories memo (lines 552-573)                        *)
(***************************************************************************)
\* lines 182-193
FIXED_CATEGORIES ==
    <<All, Crypto, Metals, Commodities, Equities, ETF, Indices, FX, Bonds, Other>>

\* the category of each pair of Object.entries(prices) (line 555)
CategoryOfEach(store) ==
    [i \in 1..Len(store) |-> getCategoryFromData(store[i][2].data, store[i][1])]

\* the keys of the Map of line 553, in the order they were set first
RECURSIVE MapNames(_)
MapNames(cats) ==
    IF Len(cats) = 0 THEN << >>
    ELSE LET before == MapNames(SubSeq(cats, 1, Len(cats) - 1))
             cat    == cats[Len(cats)]
         IN  IF \E i \in 1..Len(before) : before[i] = cat THEN before
             ELSE Append(before, cat)

\* map.get(name).count, 0 when the Map has no such key (lines 556-558, 566)
CountOf(cats, name) == Cardinality({i \in 1..Len(cats) : cats[i] = name})

\* x put into a list sorted by (a, b) => b.count - a.count
RECURSIVE InsertByCount(_, _)
InsertByCount(sorted, x) ==
    IF Len(sorted) = 0 THEN << x >>
    ELSE IF x.count > Head(sorted).count THEN << x >> \o sorted
    ELSE << Head(sorted) >> \o InsertByCount(Tail(sorted), x)

RECURSIVE SortByCount(_)
SortByCount(list) ==
    IF Len(list) = 0 THEN << >>
    ELSE InsertByCount(SortByCount(SubSeq(list, 1, Len(list) - 1)), list[Len(list)])

\* the memo: the fixed categories, "All" with the number of keys (lines
\* 561-568), then the other names of the Map by descending count (lines
\* 570-571)
categories(store) ==
    LET cats   == CategoryOfEach(store)
        names  == MapNames(cats)
        fixed  == [i \in 1..Len(FIXED_CATEGORIES) |->
                     [name  |-> FIXED_CATEGORIES[i],
                      count |-> IF FIXED_CATEGORIES[i] = All THEN Len(store)
                                ELSE CountOf(cats, FIXED_CATEGORIES[i])]]
        extras == SelectSeq(names, LAMBDA n : n \notin Range(FIXED_CATEGORIES))
    IN  fixed \o SortByCount([i \in 1..Len(extras) |->
                                [name |-> extras[i], count |-> CountOf(cats, extras[i])]])

(***************************************************************************)
(* The categories memo applied to stores whose payloads carry hints        *)
(***************************************************************************)
MaxCategorized == 3

h_all == <<"a", "l", "l">>
h_All_spaced == <<" ", "A", "l", "l", " ">>

\* the category field of a payload: absent, of the vocabulary, or another
\* text
CategoryTexts == {<< >>, w_crypto, h_spot, w_fund, h_all, h_All_spaced}

CategorizedKeys == {BTC, ETH, VIX, XRP}

\* the pair Object.entries gives for a key whose payload has the category t
HintedEntry(key, t) ==
    <<key, [data |-> JObj(("symbol" :> JStr(key)) @@ Field("category", t)),
            price |-> 9, priceChange24hr |-> 1]>>

HintedPool == { HintedEntry(k, t) : k \in CategorizedKeys, t \in CategoryTexts }

HintedStores ==
    UNION { { s \in [1..n -> HintedPool] :
                \A i, j \in 1..n : i # j => s[i][1] # s[j][1] } : n \in 0..MaxCategorized }

CategoriesInit ==
    /\ \E store \in HintedStores :
         call = [fn |-> "categories", store |-> store, done |-> FALSE,
                 classes |-> << >>, result |-> << >>]
    /\ ClientIdle
    /\ StreamIdle

ApplyCategories ==
    /\ call.fn = "categories"
    /\ ~call.done
    /\ call' = [call EXCEPT !.done = TRUE,
                            !.classes = CategoryOfEach(call.store),
                            !.result = categories(call.store)]
    /\ UNCHANGED clientVars
    /\ UNCHANGED <<streamVars, uiVars>>

CategoriesNext == ApplyCategories

CategoriesSpec == CategoriesInit /\ [][CategoriesNext]_vars

\* the sum of the counts of the real categories of the list
RECURSIVE RealCounts(_)
RealCounts(list) ==
    IF Len(list) = 0 THEN 0
    ELSE (IF Head(list).name = All THEN 0 ELSE Head(list).count) + RealCounts(Tail(list))

\* C29: the classifier returns "All" for no payload and key, so the counts
\* of the real categories of the category list add up to the number of keys
\* of the store
C29_NeverAllCountsAddUp ==
    (call.fn = "categories" /\ call.done) =>
        /\ \A i \in 1..Len(call.classes) : call.classes[i] # All
        /\ RealCounts(call.result) = Len(call.store)

(***************************************************************************)
(* socket.js: the sockets one SocketClient keeps alive                     *)
(***************************************************************************)
\* the WebSockets the client created that are OPEN or CONNECTING and still
\* carry its listeners
LiveListened ==
    {s \in DOMAIN csockets :
        csockets[s].readyState \in {"OPEN", "CONNECTING"} /\ csockets[s].listeners}

\* this.ws is OPEN or CONNECTING
CurrentIsLive ==
    client.ws # 0 /\ csockets[client.ws].readyState \in {"OPEN", "CONNECTING"}

\* C30: after any sequence of connect(), close(), open and close events and
\* reconnect timers, at most one WebSocket of the client is OPEN or
\* CONNECTING with the client's listeners attached, and a connect() that
\* finds the current socket OPEN or CONNECTING creates no socket
C30_OneLiveSocket ==
    /\ [](Cardinality(LiveListened) <= 1)
    /\ [][(cev'.op \in {"connect", "timer"} /\ CurrentIsLive) =>
              (~cev'.created /\ csockets' = csockets /\ client'.ws = client.ws)]_vars

\* a reconnect timer fired while the socket of a later connect() was OPEN or
\* CONNECTING, and its connect() created nothing
C30_Witness ==
    /\ cev.op = "timer"
    /\ ~cev.created
    /\ CurrentIsLive
    /\ Cardinality(LiveListened) = 1

====
